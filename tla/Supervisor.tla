----------------------------- MODULE Supervisor -----------------------------
(***************************************************************************)
(* Watch mode as the systemd unit runs it (src/contrib): Restart=on-failure*)
(* starts a program that has failed, or was killed, anew.  Nothing of its  *)
(* state survives but the marks on the disk.  The tree goes on changing    *)
(* while it is down, and the new start must make good whatever happened.   *)
(***************************************************************************)
EXTENDS Watcher

CONSTANT MaxCrashes     \* bound on the kills

VARIABLE crashes        \* how often the program has been killed so far

supervised == <<vars, crashes>>

SupervisedInit == Init /\ crashes = 0

\* Killed, or out of luck in some other way, between any two of its system calls.
Crash ==
    /\ pc \notin Exited /\ crashes < MaxCrashes
    /\ crashes' = crashes + 1
    /\ Exit("failed")
    /\ UNCHANGED <<tree, marked, ops, registry, walk, drain, shutdown, history>>

\* Mutant of Restart: an earlier run has marked everything, so the new one is content
\* to watch the root.
RestartWithoutWalk ==
    /\ pc = "failed" /\ ~shutdown
    /\ IsDir(root)
    /\ pc' = "seed"
    /\ by_descriptor' = [wd \in Wd |-> NoPath] /\ by_path' = [path \in Path |-> NoWd]
    /\ stack' = <<>> /\ matches' = <<>> /\ watchers' = <<root>>
    /\ batch' = <<>> /\ pending' = <<>> /\ scopes' = {} /\ needs_rescan' = FALSE
    /\ overlooked' = {} /\ shielded' = {} /\ detached' = {}
    /\ UNCHANGED <<world, shutdown, crashes>>

\* The next start, RestartSec after a failure: run from its first line.  Without a
\* root it fails again at once.  A unit that is being stopped is not restarted, nor
\* is one that has exited with status 0.
Restart ==
    /\ pc = "failed" /\ ~shutdown
    /\ IsDir(root)
    /\ pc' = "seed"
    /\ by_descriptor' = [wd \in Wd |-> NoPath] /\ by_path' = [path \in Path |-> NoWd]
    /\ stack' = <<root>> /\ matches' = <<>> /\ watchers' = <<>>
    /\ batch' = <<>> /\ pending' = <<>> /\ scopes' = {} /\ needs_rescan' = FALSE
    /\ overlooked' = {} /\ shielded' = {} /\ detached' = {}
    /\ UNCHANGED <<world, shutdown, crashes>>

\* Others change the tree while the program is down.
OthersMeanwhile ==
    /\ pc = "failed"
    /\ TreeNext
    /\ UNCHANGED <<registry, pc, walk, drain, shutdown, history, crashes>>

SupervisedNext ==
    \/ Crash \/ Restart \/ OthersMeanwhile
    \/ Next /\ UNCHANGED crashes

SupervisedSpec ==
    /\ SupervisedInit /\ [][SupervisedNext]_supervised
    /\ WF_supervised(Program /\ UNCHANGED crashes) /\ WF_supervised(Restart)

-----------------------------------------------------------------------------
\* Whatever becomes of the root after the seeding, and of the program, in the end the
\* root is watched unless there is none or the unit was stopped: a root that is moved or
\* deleted ends the program, also when that is lost in an overflow, and the restart finds
\* the one that has its path by then.
RootIsWatchedAgain == <>[](Watched(root) \/ ~IsDir(root) \/ shutdown)
=============================================================================
