-------------------------------- MODULE Shell --------------------------------
(***************************************************************************)
(* Interactive shells with the hook (hooks/bash.sh; those of zsh and fish   *)
(* make the same calls), moving between directories: what `start` tells    *)
(* them, what the loads of each directory publish, and what environment    *)
(* they end up with.                                                       *)
(*                                                                         *)
(* An env file is not an environment: it is what direnv printed for one    *)
(* environment, that of the `start` which forked the daemon, as changes to *)
(* evaluate.  Shells evaluate it at other times, and other shells do too.  *)
(*                                                                         *)
(* A load is a few steps here: it runs, has waiters, publishes or is       *)
(* cancelled (module Daemon), and there is one per directory (module       *)
(* Launch).  Not here: the error output, nushell, shells that are killed    *)
(* before they can run `stop`.                                             *)
(***************************************************************************)
EXTENDS Direnv

CONSTANTS
  Shells,       \* the shells
  Multiplexed,  \* the shells that run inside a multiplexer
  UseCache,     \* DIRENV_INSTANT_USE_CACHE
  Fragile,      \* the directories whose .envrc may break, and be repaired
  DirFails,     \* may creating the runtime directory fail?
  Idle          \* no load is under way

ASSUME MultiplexedAssumption == Multiplexed \subseteq Shells
ASSUME UseCacheAssumption == UseCache \in BOOLEAN
ASSUME FragileAssumption == Fragile \subseteq Dirs
ASSUME DirFailsAssumption == DirFails \in BOOLEAN
ASSUME IdleAssumption == Idle \notin Places

VARIABLES
  \* A shell.
  cwd,      \* where it is
  hook,     \* where its hook is: "idle", "start", "eval"; "gone"
  printed,  \* what start printed, to be evaluated
  current,  \* __DIRENV_INSTANT_CURRENT_DIR
  envFile,  \* whose env __DIRENV_INSTANT_ENV_FILE names
  present,  \* the directories whose variables are in its environment
  loaded,   \* the one direnv knows of (DIRENV_DIFF) and can unload
  usr1,     \* SIGUSR1 is pending
  \* A directory.
  good,     \* its .envrc loads
  env,      \* the published file env
  load,     \* what was loaded in the start that forked its daemon, or Idle
  waiters,  \* notify_pids
  notifies, detaches  \* messages in flight, as <<shell, directory>>

shellVars == <<cwd, hook, printed, current, envFile, present, loaded, usr1>>
dirVars == <<good, env, load, waiters, notifies, detaches>>
vars == <<shellVars, dirVars>>

\* What start prints: the two variables and, from a direnv run on the spot, changes.
Output == [current : Places, envFile : Places, change : Change \cup {Nothing}]
NoOutput == [current |-> Outside, envFile |-> Outside, change |-> Nothing]

\* Every variable has its type, and a load is under way as long as somebody waits
\* for it: the last shell to leave ends it.
TypeOK ==
  /\ cwd \in [Shells -> Places]
  /\ hook \in [Shells -> {"idle", "start", "eval", "gone"}]
  /\ printed \in [Shells -> Output]
  /\ current \in [Shells -> Places] /\ envFile \in [Shells -> Places]
  /\ present \in [Shells -> SUBSET Dirs] /\ loaded \in [Shells -> Places]
  /\ usr1 \in [Shells -> BOOLEAN]
  /\ good \in [Dirs -> BOOLEAN]
  /\ env \in [Dirs -> Change \cup {Nothing}]
  /\ load \in [Dirs -> Places \cup {Idle}]
  /\ waiters \in [Dirs -> SUBSET Shells]
  /\ notifies \subseteq Shells \X Dirs /\ detaches \subseteq Shells \X Dirs
  /\ \A d \in Dirs : load[d] = Idle <=> waiters[d] = {}

Init ==
  /\ cwd = [s \in Shells |-> Outside] /\ hook = [s \in Shells |-> "idle"]
  /\ printed = [s \in Shells |-> NoOutput]
  /\ current = [s \in Shells |-> Outside] /\ envFile = [s \in Shells |-> Outside]
  /\ present = [s \in Shells |-> {}] /\ loaded = [s \in Shells |-> Outside]
  /\ usr1 = [s \in Shells |-> FALSE]
  /\ good = [d \in Dirs |-> TRUE] /\ env = [d \in Dirs |-> Nothing]
  /\ load = [d \in Dirs |-> Idle] /\ waiters = [d \in Dirs |-> {}]
  /\ notifies = {} /\ detaches = {}

-----------------------------------------------------------------------------
(* direnv and the shell's environment.                                     *)

\* What direnv may print in p when x is loaded.
Exports(x, p) == Export(x, p, p \in Dirs => good[p])

\* The environment of shell s once it has evaluated c.
Present(s, c) == Variables(present[s], c)
Loaded(s, c) == Knows(loaded[s], c)

Evaluate(s, c) ==
  /\ present' = [present EXCEPT ![s] = Present(s, c)]
  /\ loaded' = [loaded EXCEPT ![s] = Loaded(s, c)]

\* The .envrc is edited.
Edit(d) ==
  /\ d \in Fragile
  /\ good' = [good EXCEPT ![d] = ~@]
  /\ UNCHANGED <<shellVars, env, load, waiters, notifies, detaches>>

-----------------------------------------------------------------------------
(* The user.                                                               *)

ChangeDirectory(s, p) ==
  /\ hook[s] = "idle" /\ p # cwd[s]
  /\ cwd' = [cwd EXCEPT ![s] = p]
  /\ UNCHANGED <<hook, printed, current, envFile, present, loaded, usr1, dirVars>>

-----------------------------------------------------------------------------
(* The hook and `start`.                                                   *)

\* The file the hook's variable names, if it exists.
Cached(s) == IF envFile[s] = Outside THEN Nothing ELSE env[envFile[s]]

\* A prompt, _direnv_hook: the cached environment, of the directory start was
\* last run in.
Prompt(s) ==
  /\ hook[s] = "idle"
  /\ Evaluate(s, IF UseCache THEN Cached(s) ELSE Nothing)
  /\ hook' = [hook EXCEPT ![s] = "start"]
  /\ UNCHANGED <<cwd, printed, current, envFile, usr1, dirVars>>

\* STOP <pid> reaches a daemon, if there is one.
Detaching(s, p) ==
  IF p \in Dirs /\ load[p] # Idle THEN detaches \cup {<<s, p>>} ELSE detaches

\* Bug: the hook keeps the name of the env file it had.
BugRunSync(s, p, c) ==
  printed' = [printed EXCEPT ![s] = [current |-> p, envFile |-> envFile[s], change |-> c]]

\* run_direnv_sync: direnv in the foreground; the hook's files are unset.
RunSync(s, p, c) ==
  printed' = [printed EXCEPT ![s] = [current |-> p, envFile |-> Outside, change |-> c]]

\* Bug: the files are announced only to a hook that has none.
BugAnnounced(s, d) == IF envFile[s] = Outside THEN d ELSE envFile[s]

\* The env file of the runtime directory of d.
Announced(s, d) == d

\* The runtime directory's env file is announced, then a daemon is told of this
\* shell or started.
RunDaemon(s, d) ==
  /\ printed' = [printed EXCEPT ![s] =
       [current |-> d, envFile |-> Announced(s, d), change |-> Nothing]]
  /\ IF load[d] # Idle
     THEN notifies' = notifies \cup {<<s, d>>} /\ UNCHANGED <<load, waiters>>
     ELSE /\ load' = [load EXCEPT ![d] = loaded[s]]
          /\ waiters' = [waiters EXCEPT ![d] = {s}]
          /\ UNCHANGED notifies

\* The hook is in a directory with an .envrc, and in a multiplexer.
InDaemon(s) == cwd[s] \in Dirs /\ s \in Multiplexed

\* direnv-instant start
Start(s) ==
  /\ hook[s] = "start"
  /\ detaches' = IF current[s] # cwd[s] THEN Detaching(s, current[s]) ELSE detaches
  /\ \/ InDaemon(s) /\ RunDaemon(s, cwd[s])
     \/ /\ ~InDaemon(s) \/ DirFails
        /\ \E c \in Exports(loaded[s], cwd[s]) : RunSync(s, cwd[s], c)
        /\ UNCHANGED <<load, waiters, notifies>>
  /\ hook' = [hook EXCEPT ![s] = "eval"]
  /\ UNCHANGED <<cwd, current, envFile, present, loaded, usr1, good, env>>

\* eval "$(direnv-instant start)"
EvalOutput(s) ==
  /\ hook[s] = "eval"
  /\ current' = [current EXCEPT ![s] = printed[s].current]
  /\ envFile' = [envFile EXCEPT ![s] = printed[s].envFile]
  /\ Evaluate(s, printed[s].change)
  /\ printed' = [printed EXCEPT ![s] = NoOutput]
  /\ hook' = [hook EXCEPT ![s] = "idle"]
  /\ UNCHANGED <<cwd, usr1, dirVars>>

Hook(s) == Start(s) \/ EvalOutput(s)

\* _direnv_handler, between two commands of the shell.
Handler(s) ==
  /\ usr1[s]
  /\ usr1' = [usr1 EXCEPT ![s] = FALSE]
  /\ Evaluate(s, Cached(s))
  /\ UNCHANGED <<cwd, hook, printed, current, envFile, dirVars>>

\* The shell exits: direnv-instant stop.  Its variables go with it.
Leave(s) ==
  /\ hook[s] = "idle"
  /\ hook' = [hook EXCEPT ![s] = "gone"]
  /\ detaches' = Detaching(s, current[s])
  /\ cwd' = [cwd EXCEPT ![s] = Outside]
  /\ current' = [current EXCEPT ![s] = Outside]
  /\ envFile' = [envFile EXCEPT ![s] = Outside]
  /\ present' = [present EXCEPT ![s] = {}]
  /\ loaded' = [loaded EXCEPT ![s] = Outside]
  /\ usr1' = [usr1 EXCEPT ![s] = FALSE]
  /\ UNCHANGED <<printed, good, env, load, waiters, notifies>>

-----------------------------------------------------------------------------
(* The load of a directory.                                                *)

\* Bug: the waiters are still there for the next load.
BugEnd(d) ==
  /\ load' = [load EXCEPT ![d] = Idle]
  /\ notifies' = {m \in notifies : m[2] # d} /\ detaches' = {m \in detaches : m[2] # d}
  /\ UNCHANGED waiters

\* What is in flight to a daemon that ends is lost.
End(d) ==
  /\ load' = [load EXCEPT ![d] = Idle] /\ waiters' = [waiters EXCEPT ![d] = {}]
  /\ notifies' = {m \in notifies : m[2] # d} /\ detaches' = {m \in detaches : m[2] # d}

\* Who may leave while the daemon publishes: a STOP can be handled between the
\* outcome and the signals.
Leaving(d) == {s \in waiters[d] : <<s, d>> \in detaches}

\* SIGUSR1 for those who wait and do not leave before.
Signals(d, quit) ==
  usr1' = [s \in Shells |-> usr1[s] \/ (s \in waiters[d] \ quit /\ hook[s] # "gone")]

\* The daemon publishes: an export replaces the file, a failure without one
\* removes it; who still waits is signalled if there is anything to show.
Publish(d) ==
  /\ load[d] # Idle
  /\ \E c \in Exports(load[d], d), output \in BOOLEAN, quit \in SUBSET Leaving(d) :
       /\ ~good[d] => output
       /\ env' = IF c = Nothing /\ good[d] THEN env ELSE [env EXCEPT ![d] = c]
       /\ IF output \/ c # Nothing THEN Signals(d, quit) ELSE UNCHANGED usr1
  /\ End(d)
  /\ UNCHANGED <<cwd, hook, printed, current, envFile, present, loaded, good>>

HandleNotify(s, d) ==
  /\ <<s, d>> \in notifies
  /\ notifies' = notifies \ {<<s, d>>}
  /\ waiters' = [waiters EXCEPT ![d] = @ \cup {s}]
  /\ UNCHANGED <<shellVars, good, env, load, detaches>>

\* The last one out cancels the load.
HandleDetach(s, d) ==
  /\ <<s, d>> \in detaches
  /\ IF waiters[d] = {s}
     THEN End(d)
     ELSE /\ waiters' = [waiters EXCEPT ![d] = @ \ {s}]
          /\ detaches' = detaches \ {<<s, d>>}
          /\ UNCHANGED <<load, notifies>>
  /\ UNCHANGED <<shellVars, good, env>>

\* Nobody is left.
Over == (\A s \in Shells : hook[s] = "gone") /\ UNCHANGED vars

Next ==
  \/ Over
  \/ \E s \in Shells : \/ Prompt(s) \/ Hook(s) \/ Handler(s) \/ Leave(s)
                       \/ \E p \in Places : ChangeDirectory(s, p)
  \/ \E d \in Dirs : \/ Edit(d) \/ Publish(d)
                     \/ \E s \in Shells : HandleNotify(s, d) \/ HandleDetach(s, d)

Spec == Init /\ [][Next]_vars

\* Hooks, handlers and daemons are scheduled; users do what they like and direnv
\* takes as long as it likes.
ShellFairness(s) == WF_vars(Hook(s)) /\ WF_vars(Handler(s))
LoadFairness(s, d) == WF_vars(HandleNotify(s, d)) /\ WF_vars(HandleDetach(s, d))

FairSpec ==
  /\ Spec
  /\ \A s \in Shells : ShellFairness(s)
  /\ \A s \in Shells, d \in Dirs : LoadFairness(s, d)

-----------------------------------------------------------------------------
(* Properties.                                                             *)

\* What is in the environment of a shell is what direnv knows of and would
\* unload.
Whole(s) == present[s] = {loaded[s]} \cap Dirs

\* A shell outside a multiplexer, which runs direnv itself, never evaluates what
\* was computed for another one, whatever the loads of its directories publish.
SyncWhole == \A s \in Shells \ Multiplexed : Whole(s)

\* Between two prompts a shell only gets what belongs to the place its hook last
\* ran in, whichever load signals it, however late; and nothing outside.
OwnPlaceOnly ==
  [][\A s \in Shells :
       hook[s] = "idle" /\ hook'[s] # "gone" =>
         /\ present'[s] \subseteq present[s] \cup {current[s]}
         /\ current[s] = Outside => present'[s] = present[s] /\ loaded'[s] = loaded[s]]_vars

\* The shell stays in p, where no other shell starts or cancels loads.
StaysAlone(s, p) ==
  cwd[s] = p /\ (p \in Dirs => good[p] /\ \A t \in Multiplexed \ {s} : cwd[t] # p)

\* A shell that stays in a place alone and keeps prompting ends up with what
\* belongs there, whatever other shells and loads left behind, if the .envrc is
\* good, loads end, and runtime directories can be created.
Converges ==
  ~DirFails => \A s \in Shells, p \in Places :
    /\ <>[]StaysAlone(s, p)
    /\ []<>(hook[s] = "start")
    /\ p \in Dirs => []<>(load[p] = Idle)
    => <>[](loaded[s] = p)

-----------------------------------------------------------------------------
(* What the documentation says and the code does not do.                   *)

\* README.md: the daemon "writes the resulting environment to a file [...] The
\* shell trap then loads the new environment".
LoadsWholeEnvironment == \A s \in Shells : Whole(s)
=============================================================================
