SPECIFICATION ServicesSpec
CONSTANTS
    Drafts <- SmallDrafts
    Criteria <- SmallCriteria
    RequiredRoles = {"diagnosis"}
    Threads = {h1, h2}
    MaxTasks = 3
    MaxParallel = 2
    MaxReplans = 3
    MaxRuns = 2
    MaxAnswers = 1
    MaxCrashes = 1
    q1 = q1
    q2 = q2
    q3 = q3
    i1 = i1
    i2 = i2
    Requests = {q1, q2, q3}
    InstanceOf <- TwoInstances
    \* One message for each thing the rules may find, and one in which they find nothing.
    UserMessages = {{}, {"dispatch"}, {"work order"}, {"knowledge"}, {"incident"}, {"device"}}
    Window = 2
    MaxExpiries = 2
    Chunks <- SmallChunks
    Public = "public"
    Tenant = "acme"
    SearchTopK = 2
    RankConstant = 60
    FinalTopK = 2
    TokenBudget = 3
    Queries = 2
    Failed = Failed
    None = None
    Calls = {c1, c2, c3}
    Traces = {t1, t2}
    Tools = {"create_assignment"}
    MaxTraces = 1
    MaxAttempts = 2
    CircuitThreshold = 3
    MaxToolCalls = 2
    Runs = {n1, n2}
    Capability = "knowledge.search"
    Visible = {"knowledge.search", "order.search"}
    Configured <- SmallConfigured
    Arguments <- SmallArguments
    MaxSteps = 2
    MaxTries = 2
    Deciders = {d1, d2}
    Events = {e1}
    Manifests <- SmallManifests
    Builtin <- Shipped
    Default <- ShippedDefault
    OrderSnapshots <- SmallOrders
    JavaLists <- SmallJavaLists
    WorkerLists <- SmallWorkerLists
    Unknown = Unknown
    MaxSwitches = 2
SYMMETRY Renamings
INVARIANTS
    CompletedIsCovered
    PatchIsValid
    TracesAreFresh
    ConfirmedIsTakenOnce
    EvidenceIsWellChosen
    CitationsAreFaithful
    EvidenceIsItsOwn
    BudgetIsKept
    DecisionsAreReproducible
    ChosenIsUndominated
PROPERTIES
    TurnsAreKept
    PendingIsTakenUp
    ClearedStaysCleared
    CircuitIsOneWay
CHECK_DEADLOCK FALSE
