------------------------------- MODULE Nushell -------------------------------
(***************************************************************************)
(* A nushell with its hook (hooks/nushell.nu) and `start` as it runs for it *)
(* (src/nushell.rs).  There are no traps: the hook reads the env file       *)
(* before and after every start and applies what it found, with the        *)
(* variables start printed, at once.  A start registers nobody, stops the  *)
(* daemon of another directory by force, and outside gives the way back as *)
(* a file of its own.                                                      *)
(*                                                                         *)
(* Env files are JSON only if a nushell had them made: other shells of the *)
(* session use the same runtime directory, and theirs are for zsh.  These  *)
(* shells are reduced to the loads they start, wait for and cancel (module *)
(* Shell).  Not here: the error output.                                    *)
(***************************************************************************)
EXTENDS Direnv

CONSTANTS
  Nus,       \* the nushells
  Visits,    \* visits of other kinds of shell: <<what they have loaded, where>>
  Fragile,   \* the directories whose .envrc may break, and be repaired
  Failing,   \* those whose runtime directory may fail to be created or written
  Idle,      \* no load is under way
  Unannounced  \* start names no env file

ASSUME VisitsAssumption == Visits \subseteq Places \X Dirs
ASSUME FragileAssumption == Fragile \subseteq Dirs
ASSUME FailingAssumption == Failing \subseteq Dirs
ASSUME IdleAssumption == Idle \notin Places
ASSUME UnannouncedAssumption == Unannounced \notin Places

VARIABLES
  \* A nushell.
  inMux,    \* does it run inside a multiplexer?
  cwd,      \* where it is
  hook,     \* where its hook is: "idle", "start", "eval"
  seen,     \* what the hook read before start
  printed,  \* the record start printed
  current,  \* __DIRENV_INSTANT_CURRENT_DIR
  envFile,  \* whose env __DIRENV_INSTANT_ENV_FILE names; Outside: its own file
  own,      \* what is in that file of its own
  present,  \* the directories whose variables are in its environment
  loaded,   \* the one direnv knows of
  \* A directory.
  good,     \* its .envrc loads
  env,      \* the published file env
  json,     \* is that JSON, if there is one?
  load,     \* what was loaded in the start that forked its daemon, or Idle
  asJson,   \* would a load publish JSON: was it a nushell that started it?
  awaited,  \* do other shells wait for it?
  forces,   \* the directories a forced STOP is on its way to
  shared    \* do other shells make their visits?

nuVars == <<inMux, cwd, hook, seen, printed, current, envFile, own, present, loaded>>
fileVars == <<good, env, json>>
loadVars == <<load, asJson, awaited, forces>>
vars == <<nuVars, fileVars, loadVars, shared>>

\* The record: the directory, and the env file unless there is none to announce.
Output == [current : Places, file : Places \cup {Unannounced}, own : Change \cup {Nothing}]

\* Every variable has its type, and nobody waits, nor is a STOP on its way, where
\* no load is under way.
TypeOK ==
  /\ inMux \in [Nus -> BOOLEAN] /\ shared \in BOOLEAN
  /\ cwd \in [Nus -> Places] /\ hook \in [Nus -> {"idle", "start", "eval"}]
  /\ seen \in [Nus -> Change \cup {Nothing}] /\ printed \in [Nus -> Output]
  /\ current \in [Nus -> Places] /\ envFile \in [Nus -> Places]
  /\ own \in [Nus -> Change \cup {Nothing}]
  /\ present \in [Nus -> SUBSET Dirs] /\ loaded \in [Nus -> Places]
  /\ good \in [Dirs -> BOOLEAN] /\ env \in [Dirs -> Change \cup {Nothing}]
  /\ json \in [Dirs -> BOOLEAN] /\ asJson \in [Dirs -> BOOLEAN]
  /\ load \in [Dirs -> Places \cup {Idle}] /\ awaited \in [Dirs -> BOOLEAN]
  /\ forces \subseteq Dirs
  /\ \A d \in Dirs : load[d] = Idle => ~awaited[d] /\ d \notin forces

NoOutput == [current |-> Outside, file |-> Unannounced, own |-> Nothing]

Init ==
  /\ inMux \in [Nus -> BOOLEAN] /\ shared \in BOOLEAN
  /\ cwd = [s \in Nus |-> Outside] /\ hook = [s \in Nus |-> "idle"]
  /\ seen = [s \in Nus |-> Nothing] /\ printed = [s \in Nus |-> NoOutput]
  /\ current = [s \in Nus |-> Outside] /\ envFile = [s \in Nus |-> Outside]
  /\ own = [s \in Nus |-> Nothing]
  /\ present = [s \in Nus |-> {}] /\ loaded = [s \in Nus |-> Outside]
  /\ good = [d \in Dirs |-> TRUE] /\ env = [d \in Dirs |-> Nothing]
  /\ json = [d \in Dirs |-> TRUE] /\ asJson = [d \in Dirs |-> TRUE]
  /\ load = [d \in Dirs |-> Idle] /\ awaited = [d \in Dirs |-> FALSE]
  /\ forces = {}

-----------------------------------------------------------------------------
(* The user.                                                               *)

ChangeDirectory(s, p) ==
  /\ hook[s] = "idle" /\ p # cwd[s]
  /\ cwd' = [cwd EXCEPT ![s] = p]
  /\ UNCHANGED <<inMux, hook, seen, printed, current, envFile, own, present, loaded,
                 fileVars, loadVars, shared>>

Edit(d) ==
  /\ d \in Fragile
  /\ good' = [good EXCEPT ![d] = ~@]
  /\ UNCHANGED <<nuVars, env, json, loadVars, shared>>

-----------------------------------------------------------------------------
(* The hook, before start.                                                 *)

\* from json fails on a file of another kind of shell, and the hook with it.
Readable(f) == f \in Dirs => json[f]

\* _direnv_instant_load_file
Content(f, mine) == IF f = Outside THEN mine ELSE env[f]

\* A hook that cannot read its file does nothing at all.
Prompt(s) ==
  /\ hook[s] = "idle" /\ Readable(envFile[s])
  /\ seen' = [seen EXCEPT ![s] = Content(envFile[s], own[s])]
  /\ hook' = [hook EXCEPT ![s] = "start"]
  /\ UNCHANGED <<inMux, cwd, printed, current, envFile, own, present, loaded, fileVars,
                 loadVars, shared>>

-----------------------------------------------------------------------------
(* direnv-instant start                                                    *)

\* What direnv may print for s.
Exports(s) == Export(loaded[s], cwd[s], cwd[s] \in Dirs => good[cwd[s]])

Emit(s, p, f, c) ==
  printed' = [printed EXCEPT ![s] = [current |-> p, file |-> f, own |-> c]]

\* Without an .envrc: the way back, if there is one, goes into a file of its own.
\* No daemon hears of it.
StartOutside(s) ==
  /\ cwd[s] = Outside
  /\ \E c \in Exports(s) : Emit(s, Outside, IF c = Nothing THEN Unannounced ELSE Outside, c)
  /\ UNCHANGED <<fileVars, loadVars>>

\* stop_daemon of the directory the last start was for.
StopOld(s) ==
  forces' = IF current[s] \in Dirs \ {cwd[s]} /\ load[current[s]] # Idle
            THEN forces \cup {current[s]} ELSE forces

\* Without a multiplexer direnv runs on the spot; only what it prints when it
\* succeeds is kept and announced.
Capture(s, d) ==
  \/ \E c \in Exports(s) \ {Nothing} :
       /\ good[d]
       /\ env' = [env EXCEPT ![d] = c] /\ json' = [json EXCEPT ![d] = TRUE]
       /\ Emit(s, d, d, Nothing)
  \/ /\ d \in Failing \/ ~good[d] \/ Nothing \in Exports(s)
     /\ Emit(s, d, Unannounced, Nothing)
     /\ UNCHANGED <<env, json>>

\* With one, the file is announced and a daemon is running or started, with
\* nobody registered.
Background(s, d) ==
  /\ \/ /\ Emit(s, d, d, Nothing)
        /\ IF load[d] # Idle
           THEN UNCHANGED <<load, asJson>>
           ELSE /\ load' = [load EXCEPT ![d] = loaded[s]]
                /\ asJson' = [asJson EXCEPT ![d] = TRUE]
     \/ d \in Failing /\ Emit(s, d, Unannounced, Nothing) /\ UNCHANGED <<load, asJson>>
  /\ UNCHANGED <<env, json>>

StartInside(s) ==
  /\ cwd[s] \in Dirs
  /\ StopOld(s)
  /\ \/ inMux[s] /\ Background(s, cwd[s])
     \/ ~inMux[s] /\ Capture(s, cwd[s]) /\ UNCHANGED <<load, asJson>>
  /\ UNCHANGED <<good, awaited>>

Start(s) ==
  /\ hook[s] = "start"
  /\ StartOutside(s) \/ StartInside(s)
  /\ hook' = [hook EXCEPT ![s] = "eval"]
  /\ UNCHANGED <<inMux, cwd, seen, current, envFile, own, present, loaded, shared>>

-----------------------------------------------------------------------------
(* The hook, after start.                                                  *)

\* Bug: the file the hook knows already is read again.
BugNextFile(s) ==
  IF envFile[s] # Outside \/ printed[s].file = Unannounced
  THEN envFile[s] ELSE printed[s].file

\* next_file: the one announced, or else the old one.
NextFile(s) ==
  IF printed[s].file = Unannounced THEN envFile[s] ELSE printed[s].file

\* The file of its own: once another one is announced nobody reads it again.
NextOwn(s) ==
  IF NextFile(s) # Outside THEN Nothing
  ELSE IF printed[s].file = Outside THEN printed[s].own ELSE own[s]

\* Bug: what was read first wins.
BugMerge(s, old, fresh) ==
  /\ present' = [present EXCEPT ![s] = Variables(Variables(@, fresh), old)]
  /\ loaded' = [loaded EXCEPT ![s] = Knows(Knows(@, fresh), old)]

\* $cached | merge $state | merge $fresh: what was read last wins.
Merge(s, old, fresh) ==
  /\ present' = [present EXCEPT ![s] = Variables(Variables(@, old), fresh)]
  /\ loaded' = [loaded EXCEPT ![s] = Knows(Knows(@, old), fresh)]

\* _direnv_instant_apply, or nothing if the file cannot be read.
Apply(s) ==
  /\ hook[s] = "eval"
  /\ IF Readable(NextFile(s))
     THEN /\ Merge(s, seen[s], Content(NextFile(s), NextOwn(s)))
          /\ current' = [current EXCEPT ![s] = printed[s].current]
          /\ envFile' = [envFile EXCEPT ![s] = NextFile(s)]
          /\ own' = [own EXCEPT ![s] = NextOwn(s)]
     ELSE UNCHANGED <<present, loaded, current, envFile, own>>
  /\ seen' = [seen EXCEPT ![s] = Nothing]
  /\ printed' = [printed EXCEPT ![s] = NoOutput]
  /\ hook' = [hook EXCEPT ![s] = "idle"]
  /\ UNCHANGED <<inMux, cwd, fileVars, loadVars, shared>>

-----------------------------------------------------------------------------
(* The load of a directory.                                                *)

\* Bug: who waited for this load waits for the next one.
BugEnd(d) ==
  /\ load' = [load EXCEPT ![d] = Idle] /\ forces' = forces \ {d}
  /\ asJson' = [asJson EXCEPT ![d] = TRUE] /\ UNCHANGED awaited

End(d) ==
  /\ load' = [load EXCEPT ![d] = Idle] /\ awaited' = [awaited EXCEPT ![d] = FALSE]
  /\ forces' = forces \ {d} /\ asJson' = [asJson EXCEPT ![d] = TRUE]

\* In the format of the shell that started it.
Publish(d) ==
  /\ load[d] # Idle
  /\ \E c \in Export(load[d], d, good[d]) :
       IF c = Nothing /\ good[d]
       THEN UNCHANGED <<env, json>>
       ELSE env' = [env EXCEPT ![d] = c] /\ json' = [json EXCEPT ![d] = c = Nothing \/ asJson[d]]
  /\ End(d)
  /\ UNCHANGED <<nuVars, good, shared>>

\* A forced STOP ends the load whoever waits for it.
HandleForce(d) == d \in forces /\ End(d) /\ UNCHANGED <<nuVars, fileVars, shared>>

\* Another shell comes to d: it starts a load for x, what it has loaded itself, or
\* is registered with the one under way, whoever started it.
OtherStarts(x, d) ==
  /\ shared
  /\ IF load[d] # Idle
     THEN UNCHANGED <<load, asJson>>
     ELSE load' = [load EXCEPT ![d] = x] /\ asJson' = [asJson EXCEPT ![d] = FALSE]
  /\ awaited' = [awaited EXCEPT ![d] = TRUE]
  /\ UNCHANGED <<nuVars, fileVars, forces, shared>>

\* The last one who leaves cancels the load, also that of a nushell.
OthersLeave(d) == awaited[d] /\ End(d) /\ UNCHANGED <<nuVars, fileVars, shared>>

Next ==
  \/ \E s \in Nus : \/ Prompt(s) \/ Start(s) \/ Apply(s)
                    \/ \E p \in Places : ChangeDirectory(s, p)
  \/ \E d \in Dirs : Edit(d) \/ Publish(d) \/ HandleForce(d) \/ OthersLeave(d)
  \/ \E v \in Visits : OtherStarts(v[1], v[2])

Spec == Init /\ [][Next]_vars

\* A hook that has begun goes on; users do what they like and direnv takes as long
\* as it likes.
HookFairness(s) == WF_vars(Start(s) \/ Apply(s))

FairSpec == Spec /\ \A s \in Nus : HookFairness(s)

-----------------------------------------------------------------------------
(* Properties.                                                             *)

\* A nushell that has its directories to itself, and runs direnv on the spot, has
\* in its environment what direnv knows of and would unload: though files are
\* applied again and again, after they were made, and another one may be new.
SyncWhole ==
  ~shared => \A s \in Nus : ~inMux[s] /\ Nus = {s} => present[s] = {loaded[s]} \cap Dirs

\* The nushell stays in p, with no shell that waits for loads there, and no other
\* nushell that is there or whose hook still believes so: each of its starts
\* elsewhere would stop the load.
StaysAlone(s, p) ==
  /\ cwd[s] = p
  /\ p \in Dirs =>
       good[p] /\ ~awaited[p] /\ \A t \in Nus \ {s} : p \notin {cwd[t], current[t]}

\* A nushell that stays in a place alone and whose hook keeps getting as far as
\* start ends up with what belongs there, although nobody tells it when a load is
\* over, and loads are cancelled by others; if the .envrc is good, loads end, and
\* its runtime directory works; that of others may not.
Converges ==
  \A s \in Nus, p \in Places \ Failing :
    /\ <>[]StaysAlone(s, p)
    /\ []<>(hook[s] = "start")
    /\ p \in Dirs => []<>(load[p] = Idle)
    => <>[](loaded[s] = p)
=============================================================================
