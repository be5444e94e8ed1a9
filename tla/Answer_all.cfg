SPECIFICATION AnswerSpec
CONSTANTS
    a = a  b = b
    k1 = k1  k2 = k2  k3 = k3
    e1 = e1  e2 = e2  e3 = e3  e4 = e4  e5 = e5
    alice = alice
    prompt = prompt  local = local  note = note  lost = lost
    openai = openai  ollama = ollama  mock = mock  absent = absent
    NoUser = NoUser
    None = None
    NoType = NoType
    NoProvider = NoProvider
    EventTypes = {prompt, local, note, lost}
    Rules <- MCRules
    Providers <- MCProviders
    RagProvider = openai
    HasEmbedding = TRUE
    Inputs <- MCInputs
    MaxRetries = 2
    Calls <- MCCalls
    Keys <- MCKeys
    EventIds <- MCEventIds
    UserOf <- MCUserOf
    EventOf <- MCEventOf
    NilData <- MCNilData
    Score <- MCScore
    Size <- MCSize
    Threshold = 1
    Capacity = 2
    TopK = 2
    MaxTokens = 5
    Header = 1
    Separator = 1
INVARIANTS
    TypeOK
    KeepsRecentlyUsed
    OwnHistoryOnly
    
    ContextFits
    
    RetriesAreBounded
PROPERTY
    AnswerEnds
