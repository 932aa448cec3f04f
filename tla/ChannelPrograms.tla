-------------------------- MODULE ChannelPrograms --------------------------
(***************************************************************************)
(* The two programs that are nothing but goroutines and channels, checked  *)
(* each alone in one run: the broker of system-design/pub-sub and the pool *)
(* of pkg/worker_pool.go.  A behaviour is one program's; the other keeps   *)
(* its initial state.                                                      *)
(***************************************************************************)
EXTENDS PubSub, WorkerPool

VARIABLE program   \* the program of this behaviour

programVars == <<program, vars, poolVars>>

\* The program that does not run starts in one of its initial states alone.
ProgramsInit ==
    /\ program \in {"broker", "pool"}
    /\ Init /\ PoolInit
    /\ program # "pool" => numJobs = 0 /\ ~ concurrent
    /\ program # "broker" => topic = [p \in Publishers |-> CHOOSE t \in Topics : TRUE]

BrokerStep == program = "broker" /\ Next /\ UNCHANGED <<program, poolVars>>
PoolStep   == program = "pool" /\ PoolNext /\ UNCHANGED <<program, vars>>

ProgramsNext == BrokerStep \/ PoolStep

\* A goroutine inside Publish keeps running, though subscribers owe nothing;
\* of the pool, every goroutine that can run is run.
Broker(step) == program = "broker" /\ step /\ UNCHANGED <<program, poolVars>>
Pool(step)   == program = "pool" /\ step /\ UNCHANGED <<program, vars>>

ProgramsSpec ==
    /\ ProgramsInit /\ [][ProgramsNext]_programVars
    /\ \A p \in Publishers : WF_programVars(Broker(PublishSend(p)))
    /\ \A w \in Workers : WF_programVars(Pool(WorkerStep(w)))
    /\ WF_programVars(Pool(CloseResults))
    /\ WF_programVars(Pool(CallerStep)) /\ WF_programVars(Pool(ReaderStep))

\* The pool's promise, where the pool runs.
PoolAnswers == program = "pool" => PoolFinishes
=============================================================================
