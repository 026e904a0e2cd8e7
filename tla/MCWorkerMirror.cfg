SPECIFICATION Spec
CONSTANTS
    Docs = {d1, d2, d3}
    Mine = {d1, d2}
    MainWorker = TRUE
    MaxText = 1
    MaxGen = 2
    MaxObs = 3
    MaxEvents = 1
    EditLen = 3
    Inserts <- InsertedTexts
INVARIANTS
    WorkerSeesDocuments
    WorkerSeesWorkspace
    EditsAgree
CHECK_DEADLOCK FALSE
