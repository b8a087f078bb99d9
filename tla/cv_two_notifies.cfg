SPECIFICATION FairSpec
CONSTANTS
    Worker = {"root", "producer", "consumer_1", "consumer_2"}
    NoWorker = NoWorker
    Root = "root"
    Order <- Tasks
    Producer = {"producer"}
    Cv = {"producer", "consumer_1", "consumer_2", "cv", "cv_any"}
    Mtx = {"producer", "consumer_1", "consumer_2", "mutex", "m_mtx"}
    MtxOf <- MutexOf
    Throws = {"consumer_2"}
    MaxItems = 2
    LastNotify = "notify_one"
CHECK_DEADLOCK FALSE
PROPERTY ProgramEnds
