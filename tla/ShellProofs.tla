----------------------------- MODULE ShellProofs -----------------------------
(***************************************************************************)
(* Theorems about Shell, for every number of shells and directories, any   *)
(* .envrc that breaks, with and without the cache.                         *)
(*                                                                         *)
(* The inductive invariant says, beside the types: a message is only in    *)
(* flight to a load (InFlight); what is published for a directory leads to *)
(* it or outside, and a hook only names the file of the place it last ran  *)
(* in (Owned); a shell that runs direnv itself names no file, and what it  *)
(* is about to evaluate was computed for the environment it has (Synced).  *)
(*                                                                         *)
(* Convergence is proved along the stages a shell goes through when it     *)
(* stays: away, with a fresh hook, with a load under way for it, sent a    *)
(* signal, settled.                                                        *)
(***************************************************************************)
EXTENDS Shell, TLAPS

ShellsTyped ==
  /\ cwd \in [Shells -> Places]
  /\ hook \in [Shells -> {"idle", "start", "eval", "gone"}]
  /\ printed \in [Shells -> Output]
  /\ current \in [Shells -> Places] /\ envFile \in [Shells -> Places]
  /\ present \in [Shells -> SUBSET Dirs] /\ loaded \in [Shells -> Places]
  /\ usr1 \in [Shells -> BOOLEAN]

DirsTyped ==
  /\ good \in [Dirs -> BOOLEAN]
  /\ env \in [Dirs -> Change \cup {Nothing}]
  /\ load \in [Dirs -> Places \cup {Idle}]
  /\ waiters \in [Dirs -> SUBSET Shells]
  /\ notifies \subseteq Shells \X Dirs /\ detaches \subseteq Shells \X Dirs

Waited == \A d \in Dirs : load[d] = Idle <=> waiters[d] = {}

InFlight ==
  \A s \in Shells, d \in Dirs : <<s, d>> \in notifies \cup detaches => load[d] # Idle

Owned ==
  /\ \A d \in Dirs : env[d] # Nothing => env[d].to \in {d, Outside}
  /\ \A s \in Shells :
       /\ envFile[s] \in {current[s], Outside}
       /\ printed[s].envFile \in {printed[s].current, Outside}

Synced ==
  \A s \in Shells \ Multiplexed :
    /\ Whole(s)
    /\ envFile[s] = Outside /\ printed[s].envFile = Outside
    /\ printed[s].change # Nothing => hook[s] = "eval" /\ printed[s].change.from = loaded[s]

Inv == ShellsTyped /\ DirsTyped /\ Waited /\ InFlight /\ Owned /\ Synced

USE OutsideAssumption, MultiplexedAssumption, NothingAssumption, IdleAssumption

-----------------------------------------------------------------------------
(* Environments.                                                           *)

LEMMA OutsideIsAPlace == Outside \in Places /\ \A d \in Dirs : d \in Places /\ d # Outside
BY DEF Places

\* What direnv prints takes the way from what it knows of to the place, or back.
LEMMA ExportsLead ==
  ASSUME NEW x \in Places, NEW p \in Places, NEW c \in Exports(x, p), c # Nothing
  PROVE  c \in Change /\ c.from = x /\ c.to \in {p, Outside}
<1>1. CASE p = Outside
  BY <1>1, OutsideIsAPlace DEF Exports, Export, Change
<1>2. CASE p # Outside /\ good[p]
  BY <1>2, OutsideIsAPlace DEF Exports, Export, Change
<1>3. CASE p # Outside /\ ~good[p]
  BY <1>3, OutsideIsAPlace DEF Exports, Export, Change
<1>4. QED BY <1>1, <1>2, <1>3

LEMMA CachedTyped ==
  ASSUME ShellsTyped, DirsTyped, NEW s \in Shells
  PROVE  Cached(s) \in Change \cup {Nothing}
<1>1. envFile[s] \in Places
  BY DEF ShellsTyped
<1>2. envFile[s] # Outside => env[envFile[s]] \in Change \cup {Nothing}
  BY <1>1 DEF DirsTyped, Places
<1>3. QED BY <1>2 DEF Cached

\* A cached environment is that of the place the hook last ran in.
LEMMA CachedOwned ==
  ASSUME ShellsTyped, Owned, NEW s \in Shells, Cached(s) # Nothing
  PROVE  current[s] # Outside /\ Cached(s).to \in {current[s], Outside}
<1>1. envFile[s] # Outside /\ envFile[s] = current[s] /\ Cached(s) = env[envFile[s]]
  BY DEF Cached, Owned
<1>2. current[s] \in Dirs
  BY <1>1 DEF ShellsTyped, Places
<1>3. QED BY <1>1, <1>2 DEF Owned

LEMMA EvaluateTyped ==
  ASSUME ShellsTyped, NEW s \in Shells, NEW c \in Change \cup {Nothing}, Evaluate(s, c)
  PROVE  present' \in [Shells -> SUBSET Dirs] /\ loaded' \in [Shells -> Places]
<1>1. Present(s, c) \in SUBSET Dirs
  BY DEF Present, Variables, ShellsTyped
<1>2. Loaded(s, c) \in Places
  BY DEF Loaded, Knows, ShellsTyped, Change
<1>3. QED BY <1>1, <1>2 DEF Evaluate, ShellsTyped

\* A change from what is loaded keeps an environment whole.
LEMMA EvaluateWhole ==
  ASSUME ShellsTyped, NEW s \in Shells, NEW c \in Change \cup {Nothing}, Evaluate(s, c),
         Whole(s), c # Nothing => c.from = loaded[s]
  PROVE  Whole(s)'
<1>1. present'[s] = Present(s, c) /\ loaded'[s] = Loaded(s, c)
  BY DEF Evaluate, ShellsTyped
<1>2. CASE c = Nothing
  BY <1>1, <1>2 DEF Whole, Present, Variables, Loaded, Knows
<1>3. CASE c # Nothing
  <2>1. present[s] = {c.from} \cap Dirs
    BY <1>3 DEF Whole
  <2>2. present'[s] = {c.to} \cap Dirs /\ loaded'[s] = c.to
    BY <1>1, <1>3, <2>1 DEF Present, Variables, Loaded, Knows
  <2>3. QED BY <2>2 DEF Whole
<1>4. QED BY <1>2, <1>3

LEMMA EvaluateFrame ==
  ASSUME ShellsTyped, NEW s \in Shells, NEW c, Evaluate(s, c), NEW t \in Shells, t # s
  PROVE  present'[t] = present[t] /\ loaded'[t] = loaded[t]
BY DEF Evaluate, ShellsTyped

-----------------------------------------------------------------------------
(* The invariant.                                                          *)

LEMMA InitInv == Init => Inv
<1> SUFFICES ASSUME Init PROVE Inv
  OBVIOUS
<1>1. ShellsTyped
  BY OutsideIsAPlace DEF Init, ShellsTyped, NoOutput, Output
<1>2. DirsTyped
  BY DEF Init, DirsTyped
<1>3. Waited /\ InFlight
  BY DEF Init, Waited, InFlight
<1>4. Owned
  BY DEF Init, Owned, NoOutput
<1>5. Synced
  BY OutsideIsAPlace DEF Init, Synced, Whole, NoOutput
<1>6. QED BY <1>1, <1>2, <1>3, <1>4, <1>5 DEF Inv

LEMMA StartPrints ==
  ASSUME Inv, NEW s \in Shells, Start(s)
  PROVE  \/ /\ s \in Multiplexed
            /\ printed' = [printed EXCEPT ![s] =
                 [current |-> cwd[s], envFile |-> cwd[s], change |-> Nothing]]
         \/ \E c \in Exports(loaded[s], cwd[s]) :
              printed' = [printed EXCEPT ![s] =
                [current |-> cwd[s], envFile |-> Outside, change |-> c]]
BY DEF Start, InDaemon, RunDaemon, RunSync, Announced

\* The end of a load adds signals and takes none away.
LEMMA PublishSignals ==
  ASSUME ShellsTyped, NEW d \in Dirs, Publish(d)
  PROVE  usr1' \in [Shells -> BOOLEAN] /\ \A s \in Shells : usr1[s] => usr1'[s]
<1>1. usr1' = usr1 \/ \E quit : Signals(d, quit)
  BY DEF Publish
<1>2. ASSUME NEW quit, Signals(d, quit)
      PROVE  usr1' \in [Shells -> BOOLEAN] /\ \A s \in Shells : usr1[s] => usr1'[s]
  BY <1>2 DEF Signals
<1>3. QED BY <1>1, <1>2 DEF ShellsTyped

LEMMA NextShellsTyped == Inv /\ [Next]_vars => ShellsTyped'
<1> SUFFICES ASSUME Inv, [Next]_vars PROVE ShellsTyped'
  OBVIOUS
<1> USE DEF Inv
<1>1. ASSUME UNCHANGED vars PROVE ShellsTyped'
  BY <1>1 DEF vars, shellVars, ShellsTyped
<1>2. ASSUME NEW s \in Shells, NEW p \in Places, ChangeDirectory(s, p) PROVE ShellsTyped'
  BY <1>2 DEF ChangeDirectory, ShellsTyped
<1>3. ASSUME NEW s \in Shells, Prompt(s) PROVE ShellsTyped'
  <2>1. PICK c \in Change \cup {Nothing} : Evaluate(s, c)
    BY <1>3, CachedTyped DEF Prompt
  <2>2. present' \in [Shells -> SUBSET Dirs] /\ loaded' \in [Shells -> Places]
    BY <2>1, EvaluateTyped
  <2>3. QED BY <1>3, <2>2 DEF Prompt, ShellsTyped
<1>4. ASSUME NEW s \in Shells, Start(s) PROVE ShellsTyped'
  <2>1. cwd[s] \in Places /\ loaded[s] \in Places
    BY DEF ShellsTyped
  <2>2. \A c \in Exports(loaded[s], cwd[s]) : c \in Change \cup {Nothing}
    BY <2>1, ExportsLead
  <2>3. PICK r \in Output : printed' = [printed EXCEPT ![s] = r]
    BY <1>4, <2>1, <2>2, StartPrints, OutsideIsAPlace DEF Output
  <2>4. printed' \in [Shells -> Output]
    BY <2>3 DEF ShellsTyped
  <2>5. QED BY <1>4, <2>4 DEF Start, ShellsTyped
<1>5. ASSUME NEW s \in Shells, EvalOutput(s) PROVE ShellsTyped'
  <2>1. printed[s] \in Output
    BY DEF ShellsTyped
  <2>2. /\ printed[s].current \in Places /\ printed[s].envFile \in Places
        /\ printed[s].change \in Change \cup {Nothing}
    BY <2>1 DEF Output
  <2>3. present' \in [Shells -> SUBSET Dirs] /\ loaded' \in [Shells -> Places]
    BY <1>5, <2>2, EvaluateTyped DEF EvalOutput
  <2>4. NoOutput \in Output
    BY OutsideIsAPlace DEF NoOutput, Output
  <2>5. QED BY <1>5, <2>2, <2>3, <2>4 DEF EvalOutput, ShellsTyped
<1>6. ASSUME NEW s \in Shells, Handler(s) PROVE ShellsTyped'
  <2>1. present' \in [Shells -> SUBSET Dirs] /\ loaded' \in [Shells -> Places]
    BY <1>6, CachedTyped, EvaluateTyped DEF Handler
  <2>2. QED BY <1>6, <2>1 DEF Handler, ShellsTyped
<1>7. ASSUME NEW s \in Shells, Leave(s) PROVE ShellsTyped'
  BY <1>7, OutsideIsAPlace DEF Leave, ShellsTyped
<1>8. ASSUME NEW d \in Dirs, Edit(d) PROVE ShellsTyped'
  BY <1>8 DEF Edit, shellVars, ShellsTyped
<1>9. ASSUME NEW d \in Dirs, Publish(d) PROVE ShellsTyped'
  <2>1. usr1' \in [Shells -> BOOLEAN]
    BY <1>9, PublishSignals
  <2>2. QED BY <1>9, <2>1 DEF Publish, ShellsTyped
<1>10. ASSUME NEW s \in Shells, NEW d \in Dirs, HandleNotify(s, d) \/ HandleDetach(s, d)
       PROVE  ShellsTyped'
  BY <1>10 DEF HandleNotify, HandleDetach, shellVars, ShellsTyped
<1>11. QED
  BY <1>1, <1>2, <1>3, <1>4, <1>5, <1>6, <1>7, <1>8, <1>9, <1>10 DEF Next, Hook, Over

LEMMA EndTyped ==
  ASSUME DirsTyped, Waited, InFlight, NEW d \in Dirs, End(d)
  PROVE  /\ load' \in [Dirs -> Places \cup {Idle}] /\ waiters' \in [Dirs -> SUBSET Shells]
         /\ notifies' \subseteq Shells \X Dirs /\ detaches' \subseteq Shells \X Dirs
         /\ Waited' /\ InFlight'
<1>1. load' \in [Dirs -> Places \cup {Idle}] /\ waiters' \in [Dirs -> SUBSET Shells]
  BY DEF End, DirsTyped
<1>2. notifies' \subseteq Shells \X Dirs /\ detaches' \subseteq Shells \X Dirs
  BY DEF End, DirsTyped
<1>3. Waited'
  BY DEF End, DirsTyped, Waited
<1>4. InFlight'
  <2> SUFFICES ASSUME NEW s \in Shells, NEW e \in Dirs, <<s, e>> \in notifies' \cup detaches'
               PROVE  load'[e] # Idle
    BY DEF InFlight
  <2>1. <<s, e>> \in notifies \cup detaches /\ <<s, e>>[2] # d
    BY DEF End
  <2>2. e # d /\ load[e] # Idle
    BY <2>1 DEF InFlight
  <2>3. QED BY <2>2 DEF End, DirsTyped
<1>5. QED BY <1>1, <1>2, <1>3, <1>4

LEMMA DetachingTyped ==
  ASSUME DirsTyped, InFlight, NEW s \in Shells, NEW p
  PROVE  /\ Detaching(s, p) \subseteq Shells \X Dirs
         /\ \A t \in Shells, d \in Dirs : <<t, d>> \in Detaching(s, p) => load[d] # Idle
<1>1. CASE p \in Dirs /\ load[p] # Idle
  <2>1. Detaching(s, p) = detaches \cup {<<s, p>>}
    BY <1>1 DEF Detaching
  <2>2. QED BY <1>1, <2>1 DEF DirsTyped, InFlight
<1>2. CASE ~(p \in Dirs /\ load[p] # Idle)
  <2>1. Detaching(s, p) = detaches
    BY <1>2 DEF Detaching
  <2>2. QED BY <2>1 DEF DirsTyped, InFlight
<1>3. QED BY <1>1, <1>2

LEMMA NextDirsTyped == Inv /\ [Next]_vars => DirsTyped' /\ Waited' /\ InFlight'
<1> SUFFICES ASSUME Inv, [Next]_vars PROVE DirsTyped' /\ Waited' /\ InFlight'
  OBVIOUS
<1> DEFINE Goal == DirsTyped /\ Waited /\ InFlight
<1> USE DEF Inv
<1>1. ASSUME UNCHANGED dirVars PROVE Goal'
  BY <1>1 DEF dirVars, DirsTyped, Waited, InFlight
<1>2. ASSUME NEW s \in Shells, Start(s) PROVE Goal'
  <2>1. detaches' \subseteq Shells \X Dirs
        /\ \A t \in Shells, d \in Dirs : <<t, d>> \in detaches' => load[d] # Idle
    BY <1>2, DetachingTyped DEF Start, DirsTyped, InFlight
  <2>2. CASE UNCHANGED <<load, waiters, notifies>>
    BY <1>2, <2>1, <2>2 DEF Start, DirsTyped, Waited, InFlight
  <2>3. CASE InDaemon(s) /\ RunDaemon(s, cwd[s])
    <3>1. cwd[s] \in Dirs /\ loaded[s] \in Places
      BY <2>3 DEF InDaemon, ShellsTyped
    <3>2. CASE load[cwd[s]] # Idle
      BY <1>2, <2>1, <2>3, <3>1, <3>2 DEF Start, RunDaemon, DirsTyped, Waited, InFlight
    <3>3. CASE load[cwd[s]] = Idle
      <4>1. /\ load' = [load EXCEPT ![cwd[s]] = loaded[s]]
            /\ waiters' = [waiters EXCEPT ![cwd[s]] = {s}]
            /\ UNCHANGED <<notifies, good, env>>
        BY <1>2, <2>3, <3>3 DEF Start, RunDaemon
      <4>2. loaded[s] # Idle
        BY <3>1
      <4>3. DirsTyped'
        BY <2>1, <3>1, <4>1 DEF DirsTyped
      <4>4. Waited'
        BY <3>1, <4>1, <4>2 DEF DirsTyped, Waited
      <4>5. InFlight'
        BY <2>1, <3>1, <4>1, <4>2 DEF DirsTyped, InFlight
      <4>6. QED BY <4>3, <4>4, <4>5
    <3>4. QED BY <3>2, <3>3
  <2>4. QED BY <1>2, <2>2, <2>3 DEF Start
<1>3. ASSUME NEW s \in Shells, Leave(s) PROVE Goal'
  <2>1. detaches' \subseteq Shells \X Dirs
        /\ \A t \in Shells, d \in Dirs : <<t, d>> \in detaches' => load[d] # Idle
    BY <1>3, DetachingTyped DEF Leave
  <2>2. QED BY <1>3, <2>1 DEF Leave, DirsTyped, Waited, InFlight
<1>4. ASSUME NEW d \in Dirs, Edit(d) PROVE Goal'
  BY <1>4 DEF Edit, DirsTyped, Waited, InFlight
<1>5. ASSUME NEW d \in Dirs, Publish(d) PROVE Goal'
  <2>1. End(d) /\ good' = good
    BY <1>5 DEF Publish
  <2>2. load[d] \in Places
    BY <1>5 DEF Publish, DirsTyped
  <2>3. \A c \in Exports(load[d], d) : c \in Change \cup {Nothing}
    BY <2>2, OutsideIsAPlace, ExportsLead
  <2>4. env' \in [Dirs -> Change \cup {Nothing}]
    BY <1>5, <2>3 DEF Publish, DirsTyped
  <2>5. QED BY <2>1, <2>4, EndTyped DEF DirsTyped
<1>6. ASSUME NEW s \in Shells, NEW d \in Dirs, HandleNotify(s, d) PROVE Goal'
  <2>1. load[d] # Idle
    BY <1>6 DEF HandleNotify, InFlight
  <2>2. QED BY <1>6, <2>1 DEF HandleNotify, DirsTyped, Waited, InFlight
<1>7. ASSUME NEW s \in Shells, NEW d \in Dirs, HandleDetach(s, d) PROVE Goal'
  <2>1. CASE waiters[d] = {s}
    BY <1>7, <2>1, EndTyped DEF HandleDetach, DirsTyped
  <2>2. CASE waiters[d] # {s}
    <3>1. waiters[d] # {} /\ load[d] # Idle
      BY <1>7 DEF HandleDetach, InFlight, Waited
    <3>2. waiters[d] \ {s} # {}
      BY <2>2, <3>1
    <3>3. QED BY <1>7, <2>2, <3>1, <3>2 DEF HandleDetach, DirsTyped, Waited, InFlight
  <2>3. QED BY <2>1, <2>2
<1>8. ASSUME NEW s \in Shells, NEW p \in Places, ChangeDirectory(s, p) PROVE UNCHANGED dirVars
  BY <1>8 DEF ChangeDirectory
<1>9. ASSUME NEW s \in Shells, Prompt(s) \/ EvalOutput(s) \/ Handler(s) PROVE UNCHANGED dirVars
  BY <1>9 DEF Prompt, EvalOutput, Handler
<1>10. QED
  BY <1>1, <1>2, <1>3, <1>4, <1>5, <1>6, <1>7, <1>8, <1>9 DEF Next, Hook, Over, vars

LEMMA NextOwned == Inv /\ [Next]_vars => Owned'
<1> SUFFICES ASSUME Inv, [Next]_vars PROVE Owned'
  OBVIOUS
<1> USE DEF Inv
<1> DEFINE Published == \A d \in Dirs : env[d] # Nothing => env[d].to \in {d, Outside}
<1> DEFINE Named == \A s \in Shells : /\ envFile[s] \in {current[s], Outside}
                                     /\ printed[s].envFile \in {printed[s].current, Outside}
<1>1. ASSUME UNCHANGED env PROVE Published'
  BY <1>1 DEF Owned
<1>2. ASSUME UNCHANGED <<envFile, current, printed>> PROVE Named'
  BY <1>2 DEF Owned
<1>3. ASSUME NEW s \in Shells, Start(s) PROVE Named'
  <2>1. PICK c : printed' = [printed EXCEPT ![s] = [current |-> cwd[s], envFile |-> cwd[s], change |-> c]]
              \/ printed' = [printed EXCEPT ![s] = [current |-> cwd[s], envFile |-> Outside, change |-> c]]
    BY <1>3, StartPrints
  <2>2. envFile' = envFile /\ current' = current
    BY <1>3 DEF Start
  <2>3. QED BY <2>1, <2>2 DEF Owned, ShellsTyped
<1>4. ASSUME NEW s \in Shells, EvalOutput(s) PROVE Named'
  BY <1>4 DEF EvalOutput, NoOutput, Owned, ShellsTyped
<1>5. ASSUME NEW s \in Shells, Leave(s) PROVE Named'
  BY <1>5 DEF Leave, Owned, ShellsTyped
<1>6. ASSUME NEW d \in Dirs, Publish(d) PROVE Published'
  <2>1. load[d] \in Places
    BY <1>6 DEF Publish, DirsTyped
  <2>2. \A c \in Exports(load[d], d) : c # Nothing => c.to \in {d, Outside}
    BY <2>1, OutsideIsAPlace, ExportsLead
  <2>3. PICK c \in Exports(load[d], d) : env' = env \/ env' = [env EXCEPT ![d] = c]
    BY <1>6 DEF Publish
  <2>4. QED BY <2>2, <2>3 DEF Owned, DirsTyped
<1>7. CASE UNCHANGED vars
  BY <1>1, <1>2, <1>7 DEF vars, shellVars, dirVars, Owned
<1>8. ASSUME NEW s \in Shells, NEW p \in Places, ChangeDirectory(s, p) PROVE Owned'
  BY <1>1, <1>2, <1>8 DEF ChangeDirectory, dirVars, Owned
<1>9. ASSUME NEW s \in Shells, Prompt(s) \/ Handler(s) PROVE Owned'
  BY <1>1, <1>2, <1>9 DEF Prompt, Handler, dirVars, Owned
<1>10. ASSUME NEW s \in Shells, Start(s) \/ EvalOutput(s) \/ Leave(s) PROVE Owned'
  <2>1. UNCHANGED env
    BY <1>10 DEF Start, EvalOutput, Leave, dirVars
  <2>2. QED BY <1>1, <1>3, <1>4, <1>5, <1>10, <2>1 DEF Owned
<1>11. ASSUME NEW d \in Dirs, Edit(d) PROVE Owned'
  BY <1>1, <1>2, <1>11 DEF Edit, shellVars, Owned
<1>12. ASSUME NEW d \in Dirs, Publish(d) PROVE Owned'
  <2>1. UNCHANGED <<envFile, current, printed>>
    BY <1>12 DEF Publish
  <2>2. QED BY <1>2, <1>6, <1>12, <2>1 DEF Owned
<1>13. ASSUME NEW s \in Shells, NEW d \in Dirs, HandleNotify(s, d) \/ HandleDetach(s, d) PROVE Owned'
  BY <1>1, <1>2, <1>13 DEF HandleNotify, HandleDetach, shellVars, Owned
<1>14. QED
  BY <1>7, <1>8, <1>9, <1>10, <1>11, <1>12, <1>13 DEF Next, Hook, Over

LEMMA NextSynced == Inv /\ [Next]_vars => Synced'
<1> SUFFICES ASSUME Inv, [Next]_vars, NEW t \in Shells \ Multiplexed
             PROVE  /\ Whole(t)'
                    /\ envFile'[t] = Outside /\ printed'[t].envFile = Outside
                    /\ printed'[t].change # Nothing =>
                         hook'[t] = "eval" /\ printed'[t].change.from = loaded'[t]
  BY DEF Synced
<1> DEFINE Goal == /\ Whole(t)
                   /\ envFile[t] = Outside /\ printed[t].envFile = Outside
                   /\ printed[t].change # Nothing =>
                        hook[t] = "eval" /\ printed[t].change.from = loaded[t]
<1> USE DEF Inv
<1>1. Goal /\ t \in Shells /\ t \notin Multiplexed /\ Cached(t) = Nothing
  BY DEF Synced, Cached
<1>2. ASSUME UNCHANGED <<hook, printed, envFile, present, loaded>> PROVE Goal'
  BY <1>1, <1>2 DEF Whole
<1>3. ASSUME present'[t] = present[t], loaded'[t] = loaded[t] PROVE Whole(t)'
  BY <1>1, <1>3 DEF Whole
<1>4. ASSUME NEW s \in Shells, Prompt(s) PROVE Goal'
  <2>1. PICK c : Evaluate(s, c) /\ (c = Cached(s) \/ c = Nothing)
    BY <1>4 DEF Prompt
  <2>2. present'[t] = present[t] /\ loaded'[t] = loaded[t]
    <3>1. CASE s = t
      BY <1>1, <2>1, <3>1 DEF Evaluate, Present, Variables, Loaded, Knows, ShellsTyped
    <3>2. CASE s # t
      BY <1>1, <2>1, <3>2, EvaluateFrame
    <3>3. QED BY <3>1, <3>2
  <2>3. Whole(t)'
    BY <1>3, <2>2
  <2>4. hook[s] = "idle" /\ printed' = printed /\ envFile' = envFile
        /\ hook' = [hook EXCEPT ![s] = "start"]
    BY <1>4 DEF Prompt
  <2>5. QED BY <1>1, <2>2, <2>3, <2>4 DEF ShellsTyped
<1>5. ASSUME NEW s \in Shells, Start(s) PROVE Goal'
  <2>1. /\ UNCHANGED <<envFile, present, loaded>>
        /\ hook' = [hook EXCEPT ![s] = "eval"]
    BY <1>5 DEF Start
  <2>2. Whole(t)'
    BY <1>3, <2>1
  <2>3. CASE s = t
    <3>1. PICK c \in Exports(loaded[s], cwd[s]) :
            printed' = [printed EXCEPT ![s] = [current |-> cwd[s], envFile |-> Outside, change |-> c]]
      BY <1>1, <1>5, <2>3, StartPrints
    <3>2. loaded[s] \in Places /\ cwd[s] \in Places
      BY DEF ShellsTyped
    <3>3. c # Nothing => c.from = loaded[s]
      BY <3>1, <3>2, ExportsLead
    <3>4. printed'[t].envFile = Outside /\ printed'[t].change = c /\ hook'[t] = "eval"
      BY <2>1, <2>3, <3>1 DEF ShellsTyped
    <3>5. QED BY <1>1, <2>1, <2>2, <2>3, <3>3, <3>4
  <2>4. CASE s # t
    <3>1. printed'[t] = printed[t] /\ hook'[t] = hook[t]
      BY <1>5, <2>1, <2>4, StartPrints DEF ShellsTyped
    <3>2. QED BY <1>1, <2>1, <2>2, <3>1
  <2>5. QED BY <2>3, <2>4
<1>6. ASSUME NEW s \in Shells, EvalOutput(s) PROVE Goal'
  <2>1. CASE s = t
    <3>1. printed[s] \in Output
      BY DEF ShellsTyped
    <3>2. printed[s].change \in Change \cup {Nothing}
      BY <3>1 DEF Output
    <3>3. Whole(t)'
      BY <1>1, <1>6, <2>1, <3>2, EvaluateWhole DEF EvalOutput
    <3>4. printed'[t] = NoOutput /\ envFile'[t] = printed[t].envFile
      BY <1>6, <2>1 DEF EvalOutput, ShellsTyped
    <3>5. QED BY <1>1, <3>3, <3>4 DEF NoOutput
  <2>2. CASE s # t
    <3>1. present'[t] = present[t] /\ loaded'[t] = loaded[t]
      BY <1>1, <1>6, <2>2, EvaluateFrame DEF EvalOutput
    <3>2. printed'[t] = printed[t] /\ envFile'[t] = envFile[t] /\ hook'[t] = hook[t]
      BY <1>6, <2>2 DEF EvalOutput, ShellsTyped
    <3>3. QED BY <1>1, <1>3, <3>1, <3>2
  <2>3. QED BY <2>1, <2>2
<1>7. ASSUME NEW s \in Shells, Handler(s) PROVE Goal'
  <2>1. Evaluate(s, Cached(s))
    BY <1>7 DEF Handler
  <2>2. present'[t] = present[t] /\ loaded'[t] = loaded[t]
    <3>1. CASE s = t
      BY <1>1, <2>1, <3>1 DEF Evaluate, Present, Variables, Loaded, Knows, ShellsTyped
    <3>2. CASE s # t
      BY <1>1, <2>1, <3>2, EvaluateFrame
    <3>3. QED BY <3>1, <3>2
  <2>3. UNCHANGED <<hook, printed, envFile>>
    BY <1>7 DEF Handler
  <2>4. QED BY <1>1, <1>3, <2>2, <2>3
<1>8. ASSUME NEW s \in Shells, Leave(s) PROVE Goal'
  <2>1. /\ hook[s] = "idle" /\ hook' = [hook EXCEPT ![s] = "gone"] /\ printed' = printed
        /\ envFile' = [envFile EXCEPT ![s] = Outside]
        /\ present' = [present EXCEPT ![s] = {}] /\ loaded' = [loaded EXCEPT ![s] = Outside]
    BY <1>8 DEF Leave
  <2>2. CASE s = t
    <3>1. present'[t] = {} /\ loaded'[t] = Outside /\ envFile'[t] = Outside
      BY <2>1, <2>2 DEF ShellsTyped
    <3>2. Whole(t)'
      BY <3>1, OutsideAssumption DEF Whole
    <3>3. printed[t].change = Nothing
      BY <1>1, <2>1, <2>2
    <3>4. QED BY <1>1, <2>1, <3>1, <3>2, <3>3
  <2>3. CASE s # t
    BY <1>1, <1>3, <2>1, <2>3 DEF ShellsTyped
  <2>4. QED BY <2>2, <2>3
<1>9. ASSUME NEW s \in Shells, NEW p \in Places, ChangeDirectory(s, p) PROVE Goal'
  BY <1>2, <1>9 DEF ChangeDirectory
<1>10. ASSUME NEW d \in Dirs, Edit(d) \/ Publish(d) PROVE Goal'
  BY <1>2, <1>10 DEF Edit, Publish, shellVars
<1>11. ASSUME NEW s \in Shells, NEW d \in Dirs, HandleNotify(s, d) \/ HandleDetach(s, d) PROVE Goal'
  BY <1>2, <1>11 DEF HandleNotify, HandleDetach, shellVars
<1>12. CASE UNCHANGED vars
  BY <1>2, <1>12 DEF vars, shellVars
<1>13. QED
  <2>1. Goal'
    BY <1>4, <1>5, <1>6, <1>7, <1>8, <1>9, <1>10, <1>11, <1>12 DEF Next, Hook, Over
  <2>2. QED BY <2>1

\* The parts of the invariant together are inductive.
THEOREM InvHolds == Spec => []Inv
<1>1. Inv /\ [Next]_vars => Inv'
  BY NextShellsTyped, NextDirsTyped, NextOwned, NextSynced DEF Inv
<1>2. QED BY InitInv, <1>1, PTL DEF Spec

-----------------------------------------------------------------------------
(* The theorems.                                                           *)

\* The shells, directories and messages keep their types, and a load is under
\* way exactly as long as somebody waits for it.
THEOREM TypeCorrect == Spec => []TypeOK
<1>1. Inv => TypeOK
  BY DEF Inv, ShellsTyped, DirsTyped, Waited, TypeOK
<1>2. QED BY InvHolds, <1>1, PTL

\* A shell outside a multiplexer only evaluates what direnv computed for its own
\* environment: what direnv knows of is all that is in it.
THEOREM SyncWholeHolds == Spec => []SyncWhole
<1>1. Inv => SyncWhole
  BY DEF Inv, Synced, SyncWhole
<1>2. QED BY InvHolds, <1>1, PTL

\* The environment a cache file leads to is of the place its shell is in.
LEMMA EvaluateCached ==
  ASSUME ShellsTyped, Owned, NEW s \in Shells, NEW c, c = Cached(s) \/ c = Nothing, Evaluate(s, c)
  PROVE  /\ present'[s] \subseteq present[s] \cup {current[s]}
         /\ current[s] = Outside => present'[s] = present[s] /\ loaded'[s] = loaded[s]
<1>1. present'[s] = Present(s, c) /\ loaded'[s] = Loaded(s, c)
  BY DEF Evaluate, ShellsTyped
<1>2. CASE c = Nothing
  BY <1>1, <1>2 DEF Present, Variables, Loaded, Knows
<1>3. CASE c # Nothing
  <2>1. current[s] # Outside /\ c.to \in {current[s], Outside}
    BY <1>3, CachedOwned
  <2>2. present'[s] = (present[s] \ {c.from}) \cup ({c.to} \cap Dirs)
    BY <1>1, <1>3 DEF Present, Variables
  <2>3. QED BY <2>1, <2>2
<1>4. QED BY <1>2, <1>3

\* Between two prompts a shell only gets what belongs to the place its hook last
\* ran in, whichever load signals it.
THEOREM OwnPlaceOnlyHolds == Spec => OwnPlaceOnly
<1> DEFINE Kept(s) == hook[s] = "idle" /\ hook'[s] # "gone" =>
                        /\ present'[s] \subseteq present[s] \cup {current[s]}
                        /\ current[s] = Outside => present'[s] = present[s] /\ loaded'[s] = loaded[s]
<1>1. Inv /\ [Next]_vars => [\A s \in Shells : Kept(s)]_vars
  <2> SUFFICES ASSUME Inv, Next, NEW t \in Shells PROVE Kept(t)
    OBVIOUS
  <2> USE DEF Inv
  <2>1. ASSUME UNCHANGED <<present, loaded>> PROVE Kept(t)
    BY <2>1
  <2>2. ASSUME NEW s \in Shells, Prompt(s) \/ Handler(s) PROVE Kept(t)
    <3>1. PICK c : Evaluate(s, c) /\ (c = Cached(s) \/ c = Nothing)
      BY <2>2 DEF Prompt, Handler
    <3>2. CASE s = t
      BY <3>1, <3>2, EvaluateCached
    <3>3. CASE s # t
      BY <3>1, <3>3, EvaluateFrame
    <3>4. QED BY <3>2, <3>3
  <2>3. ASSUME NEW s \in Shells, EvalOutput(s) PROVE Kept(t)
    <3>1. CASE s = t
      BY <2>3, <3>1 DEF EvalOutput
    <3>2. CASE s # t
      BY <2>3, <3>2, EvaluateFrame DEF EvalOutput
    <3>3. QED BY <3>1, <3>2
  <2>4. ASSUME NEW s \in Shells, Leave(s) PROVE Kept(t)
    <3>1. CASE s = t
      BY <2>4, <3>1 DEF Leave, ShellsTyped
    <3>2. CASE s # t
      BY <2>4, <3>2 DEF Leave, ShellsTyped
    <3>3. QED BY <3>1, <3>2
  <2>5. ASSUME NEW s \in Shells, Start(s) PROVE Kept(t)
    BY <2>1, <2>5 DEF Start
  <2>6. ASSUME NEW s \in Shells, NEW p \in Places, ChangeDirectory(s, p) PROVE Kept(t)
    BY <2>1, <2>6 DEF ChangeDirectory
  <2>7. ASSUME NEW d \in Dirs, Edit(d) \/ Publish(d) PROVE Kept(t)
    BY <2>1, <2>7 DEF Edit, Publish, shellVars
  <2>8. ASSUME NEW s \in Shells, NEW d \in Dirs, HandleNotify(s, d) \/ HandleDetach(s, d) PROVE Kept(t)
    BY <2>1, <2>8 DEF HandleNotify, HandleDetach, shellVars
  <2>9. CASE UNCHANGED vars
    BY <2>1, <2>9 DEF vars, shellVars
  <2>10. QED
    BY <2>2, <2>3, <2>4, <2>5, <2>6, <2>7, <2>8, <2>9 DEF Next, Hook, Over
<1>2. QED BY InvHolds, <1>1, PTL DEF Spec, OwnPlaceOnly

-----------------------------------------------------------------------------
(* A shell that stays ends up with what belongs there.                     *)
(*                                                                         *)
(* What the steps of all shells and loads are to one that stays: its own   *)
(* hook's, or one that leaves it as it is.                                 *)

\* A prompt or a signal makes shell s evaluate a cached environment.
Reads(s) ==
  /\ printed'[s] = printed[s] /\ current'[s] = current[s] /\ envFile'[s] = envFile[s]
  /\ UNCHANGED dirVars
  /\ \/ /\ hook[s] = "idle" /\ hook'[s] = "start" /\ usr1'[s] = usr1[s]
        /\ loaded'[s] \in {loaded[s], Knows(loaded[s], Cached(s))}
     \/ /\ usr1[s] /\ hook'[s] = hook[s]
        /\ loaded'[s] = Knows(loaded[s], Cached(s))

\* The others, the loads and the user leave shell s as it is, or signal it.
Same(s) ==
  /\ hook'[s] = hook[s] /\ printed'[s] = printed[s] /\ current'[s] = current[s]
  /\ envFile'[s] = envFile[s] /\ loaded'[s] = loaded[s]
  /\ usr1[s] => usr1'[s]

LEMMA ShellStep ==
  ASSUME Inv, Next, NEW s \in Shells
  PROVE  Start(s) \/ EvalOutput(s) \/ Leave(s) \/ Reads(s) \/ Same(s)
<1> USE DEF Inv
<1>1. ASSUME NEW t \in Shells, NEW p \in Places, ChangeDirectory(t, p) PROVE Same(s)
  BY <1>1 DEF ChangeDirectory, Same
<1>2. ASSUME Prompt(s) PROVE Reads(s)
  <2>1. /\ hook[s] = "idle" /\ hook'[s] = "start"
        /\ UNCHANGED <<printed, current, envFile, usr1, dirVars>>
        /\ Evaluate(s, IF UseCache THEN Cached(s) ELSE Nothing)
    BY <1>2 DEF Prompt, ShellsTyped
  <2>2. loaded'[s] = Knows(loaded[s], IF UseCache THEN Cached(s) ELSE Nothing)
    BY <2>1 DEF Evaluate, Loaded, ShellsTyped
  <2>3. loaded'[s] \in {loaded[s], Knows(loaded[s], Cached(s))}
    BY <2>2 DEF Knows
  <2>4. QED BY <2>1, <2>3 DEF Reads
<1>3. ASSUME Handler(s) PROVE Reads(s)
  <2>1. loaded'[s] = Knows(loaded[s], Cached(s))
    BY <1>3 DEF Handler, Evaluate, Loaded, ShellsTyped
  <2>2. QED BY <1>3, <2>1 DEF Handler, Reads
<1>4. ASSUME NEW t \in Shells, t # s, Prompt(t) \/ Handler(t) PROVE Same(s)
  <2>1. PICK c : Evaluate(t, c)
    BY <1>4 DEF Prompt, Handler
  <2>2. loaded'[s] = loaded[s]
    BY <1>4, <2>1, EvaluateFrame
  <2>3. QED BY <1>4, <2>2 DEF Prompt, Handler, Same, ShellsTyped
<1>5. ASSUME NEW t \in Shells, t # s, Start(t) PROVE Same(s)
  <2>1. printed'[s] = printed[s]
    BY <1>5 DEF Start, RunDaemon, RunSync, ShellsTyped
  <2>2. QED BY <1>5, <2>1 DEF Start, Same, ShellsTyped
<1>6. ASSUME NEW t \in Shells, t # s, EvalOutput(t) PROVE Same(s)
  <2>1. loaded'[s] = loaded[s]
    BY <1>6, EvaluateFrame DEF EvalOutput
  <2>2. QED BY <1>6, <2>1 DEF EvalOutput, Same, ShellsTyped
<1>7. ASSUME NEW t \in Shells, t # s, Leave(t) PROVE Same(s)
  BY <1>7 DEF Leave, Same, ShellsTyped
<1>8. ASSUME NEW d \in Dirs, Edit(d) PROVE Same(s)
  BY <1>8 DEF Edit, shellVars, Same
<1>9. ASSUME NEW d \in Dirs, Publish(d) PROVE Same(s)
  BY <1>9, PublishSignals DEF Publish, Same
<1>10. ASSUME NEW t \in Shells, NEW d \in Dirs, HandleNotify(t, d) \/ HandleDetach(t, d)
       PROVE  Same(s)
  BY <1>10 DEF HandleNotify, HandleDetach, shellVars, Same
<1>11. ASSUME Over PROVE Same(s)
  BY <1>11 DEF Over, vars, shellVars, Same
<1>12. QED
  BY <1>1, <1>2, <1>3, <1>4, <1>5, <1>6, <1>7, <1>8, <1>9, <1>10, <1>11 DEF Next, Hook

-----------------------------------------------------------------------------
(* direnv in the foreground: the hook names no file any more, and what it  *)
(* evaluates leads to the place.                                           *)

AtStart(s) == hook[s] = "start"
InSync(s, p) == StaysAlone(s, p) /\ ~(p \in Dirs /\ s \in Multiplexed)

Ran(s) == hook[s] = "eval" /\ printed[s].envFile = Outside
NoFile(s) == envFile[s] = Outside /\ printed[s].envFile = Outside
Leads(s, p) ==
  /\ NoFile(s) /\ hook[s] = "eval"
  /\ IF printed[s].change = Nothing THEN loaded[s] = p ELSE printed[s].change.to = p
There(s, p) ==
  /\ NoFile(s) /\ loaded[s] = p
  /\ printed[s].change # Nothing => printed[s].change.to = p

\* Without a file there is nothing to read.
LEMMA NoFileReads ==
  ASSUME NEW s \in Shells, NoFile(s), Reads(s)
  PROVE  loaded'[s] = loaded[s]
BY DEF NoFile, Reads, Cached, Knows

LEMMA SyncStart ==
  ASSUME Inv, NEW s \in Shells, NEW p \in Places, InSync(s, p), Start(s), ~DirFails
  PROVE  /\ Ran(s)' /\ envFile'[s] = envFile[s] /\ loaded'[s] = loaded[s]
         /\ NoFile(s) => Leads(s, p)'
<1>1. ~InDaemon(s) /\ cwd[s] = p
  BY DEF InSync, InDaemon, StaysAlone
<1>2. PICK c \in Exports(loaded[s], p) :
        printed' = [printed EXCEPT ![s] = [current |-> p, envFile |-> Outside, change |-> c]]
  BY <1>1 DEF Start, RunSync
<1>3. printed'[s] = [current |-> p, envFile |-> Outside, change |-> c]
  BY <1>2 DEF Inv, ShellsTyped
<1>4. hook'[s] = "eval" /\ envFile'[s] = envFile[s] /\ loaded'[s] = loaded[s]
  BY DEF Start, Inv, ShellsTyped
<1>5. IF c = Nothing THEN loaded[s] = p ELSE c.to = p
  <2> DEFINE way == [from |-> loaded[s], to |-> p]
  <2>0. way # Nothing /\ way.to = p
    BY DEF Inv, ShellsTyped, Change
  <2>1. CASE p = Outside
    <3>1. c = (IF loaded[s] = Outside THEN Nothing ELSE way)
      BY <1>2, <2>1 DEF Exports, Export
    <3>2. QED BY <2>0, <2>1, <3>1
  <2>2. CASE p # Outside
    <3>1. p \in Dirs /\ good[p]
      BY <2>2 DEF InSync, StaysAlone, Places
    <3>2. Exports(loaded[s], p) = {way} \cup (IF loaded[s] = p THEN {Nothing} ELSE {})
      BY <2>2, <3>1 DEF Exports, Export
    <3>3. c = way \/ (c = Nothing /\ loaded[s] = p)
      <4>1. CASE loaded[s] = p
        BY <1>2, <3>2, <4>1
      <4>2. CASE loaded[s] # p
        BY <1>2, <3>2, <4>2
      <4>3. QED BY <4>1, <4>2
    <3>4. QED BY <2>0, <3>3
  <2>3. QED BY <2>1, <2>2
<1>6. Ran(s)'
  BY <1>3, <1>4 DEF Ran
<1>7. NoFile(s) => Leads(s, p)'
  BY <1>3, <1>4, <1>5 DEF NoFile, Leads
<1>8. QED BY <1>4, <1>6, <1>7

LEMMA Evaluates ==
  ASSUME Inv, NEW s \in Shells, EvalOutput(s)
  PROVE  /\ hook[s] = "eval" /\ hook'[s] = "idle"
         /\ envFile'[s] = printed[s].envFile /\ current'[s] = printed[s].current
         /\ loaded'[s] = Knows(loaded[s], printed[s].change)
         /\ printed'[s].envFile = Outside /\ printed'[s].change = Nothing
         /\ usr1'[s] = usr1[s]
<1>1. loaded'[s] = Knows(loaded[s], printed[s].change)
  BY DEF EvalOutput, Evaluate, Loaded, Inv, ShellsTyped
<1>2. printed'[s] = NoOutput
  BY DEF EvalOutput, Inv, ShellsTyped
<1>3. QED BY <1>1, <1>2 DEF EvalOutput, NoOutput, Inv, ShellsTyped

\* What a shell in the foreground does, stage by stage.
LEMMA SyncStep ==
  ASSUME Inv, [Next]_vars, NEW s \in Shells, NEW p \in Places, InSync(s, p), InSync(s, p)',
         ~DirFails
  PROVE  /\ AtStart(s) => AtStart(s)' \/ Ran(s)'
         /\ Ran(s) => Ran(s)' \/ NoFile(s)'
         /\ NoFile(s) => NoFile(s)'
         /\ NoFile(s) /\ AtStart(s) => AtStart(s)' \/ Leads(s, p)'
         /\ Leads(s, p) => Leads(s, p)' \/ There(s, p)'
         /\ There(s, p) => There(s, p)'
<1> DEFINE Goal == /\ hook[s] = "start" => hook'[s] = "start" \/ Ran(s)'
                   /\ Ran(s) => Ran(s)' \/ NoFile(s)'
                   /\ NoFile(s) => NoFile(s)'
                   /\ NoFile(s) /\ hook[s] = "start" => hook'[s] = "start" \/ Leads(s, p)'
                   /\ Leads(s, p) => Leads(s, p)' \/ There(s, p)'
                   /\ There(s, p) => There(s, p)'
<1> SUFFICES Goal
  BY DEF AtStart
<1>1. CASE Start(s)
  <2>1. /\ hook[s] = "start" /\ Ran(s)' /\ envFile'[s] = envFile[s] /\ loaded'[s] = loaded[s]
        /\ NoFile(s) => Leads(s, p)'
    BY <1>1, SyncStart DEF Start
  <2>2. There(s, p) => There(s, p)'
    BY <2>1 DEF There, Leads, NoFile
  <2>3. NoFile(s) => NoFile(s)'
    BY <2>1 DEF Leads
  <2>4. ~Ran(s) /\ ~Leads(s, p)
    BY <2>1 DEF Ran, Leads
  <2>5. QED BY <2>1, <2>2, <2>3, <2>4
<1>2. CASE EvalOutput(s)
  <2>1. /\ hook[s] = "eval" /\ hook'[s] = "idle"
        /\ envFile'[s] = printed[s].envFile
        /\ loaded'[s] = Knows(loaded[s], printed[s].change)
        /\ printed'[s].envFile = Outside /\ printed'[s].change = Nothing
    BY <1>2, Evaluates
  <2>2. Ran(s) \/ NoFile(s) => NoFile(s)'
    BY <2>1 DEF Ran, NoFile
  <2>3. Leads(s, p) \/ There(s, p) => There(s, p)'
    BY <2>1, <2>2 DEF Leads, There, Knows, NoFile
  <2>4. QED BY <2>1, <2>2, <2>3
<1>3. CASE Reads(s)
  <2>1. printed'[s] = printed[s] /\ envFile'[s] = envFile[s]
    BY <1>3 DEF Reads
  <2>2. hook[s] \in {"start", "eval"} => hook'[s] = hook[s]
    BY <1>3 DEF Reads
  <2>3. NoFile(s) => loaded'[s] = loaded[s]
    BY <1>3, NoFileReads
  <2>4. QED BY <2>1, <2>2, <2>3 DEF Ran, NoFile, Leads, There
<1>4. CASE Same(s)
  BY <1>4 DEF Same, Ran, NoFile, Leads, There
<1>5. CASE Leave(s)
  <2>1. /\ hook[s] = "idle" /\ cwd'[s] = Outside /\ envFile'[s] = Outside
        /\ loaded'[s] = Outside /\ printed'[s] = printed[s]
    BY <1>5 DEF Leave, Inv, ShellsTyped
  <2>2. p = Outside
    BY <2>1 DEF InSync, StaysAlone
  <2>3. QED BY <2>1, <2>2 DEF Ran, NoFile, Leads, There
<1>6. CASE UNCHANGED vars
  <2>1. Same(s)
    BY <1>6 DEF vars, shellVars, Same
  <2>2. QED BY <2>1, <1>4
<1>7. QED BY <1>1, <1>2, <1>3, <1>4, <1>5, <1>6, ShellStep

-----------------------------------------------------------------------------
(* In a multiplexer: after its first prompt in d the shell names the env   *)
(* of d (Here); once a load of d has ended since, nobody else can cancel   *)
(* the loads it starts (Mine).                                             *)

Told(s, d) == printed[s] = [current |-> d, envFile |-> d, change |-> Nothing]
Named(s, d) == hook[s] = "eval" /\ Told(s, d)
Here(s, d) ==
  /\ current[s] = d /\ envFile[s] = d /\ hook[s] # "gone"
  /\ hook[s] = "eval" => Told(s, d)
Mine(s, d) ==
  /\ Here(s, d)
  /\ waiters[d] \subseteq {s} /\ <<s, d>> \notin detaches
  /\ \A t \in Shells \ {s} : <<t, d>> \notin notifies

LEMMA MuxStart ==
  ASSUME Inv, NEW s \in Multiplexed, NEW d \in Dirs, StaysAlone(s, d), Start(s), ~DirFails
  PROVE  /\ Named(s, d)' /\ hook[s] = "start" /\ RunDaemon(s, d)
         /\ current'[s] = current[s] /\ envFile'[s] = envFile[s] /\ loaded'[s] = loaded[s]
<1>1. cwd[s] = d /\ RunDaemon(s, d)
  BY DEF Start, InDaemon, StaysAlone
<1>2. printed'[s] = [current |-> d, envFile |-> d, change |-> Nothing]
  BY <1>1 DEF RunDaemon, Announced, Inv, ShellsTyped
<1>3. QED BY <1>1, <1>2 DEF Start, Named, Told, Inv, ShellsTyped

LEMMA HereStep ==
  ASSUME Inv, [Next]_vars, NEW s \in Multiplexed, NEW d \in Dirs,
         StaysAlone(s, d), StaysAlone(s, d)', ~DirFails
  PROVE  /\ AtStart(s) => AtStart(s)' \/ Named(s, d)'
         /\ Named(s, d) => Named(s, d)' \/ Here(s, d)'
         /\ Here(s, d) => Here(s, d)'
<1> DEFINE Goal == /\ hook[s] = "start" => hook'[s] = "start" \/ Named(s, d)'
                   /\ Named(s, d) => Named(s, d)' \/ Here(s, d)'
                   /\ Here(s, d) => Here(s, d)'
<1> SUFFICES Goal
  BY DEF AtStart
<1>0. s \in Shells /\ d # Outside
  BY OutsideIsAPlace
<1>1. CASE Start(s)
  <2>1. Named(s, d)' /\ hook[s] = "start"
        /\ current'[s] = current[s] /\ envFile'[s] = envFile[s]
    BY <1>1, MuxStart
  <2>2. QED BY <2>1 DEF Named, Here
<1>2. CASE EvalOutput(s)
  <2>1. /\ hook[s] = "eval" /\ hook'[s] = "idle"
        /\ envFile'[s] = printed[s].envFile /\ current'[s] = printed[s].current
    BY <1>0, <1>2, Evaluates
  <2>2. QED BY <2>1 DEF Named, Here, Told
<1>3. CASE Reads(s)
  BY <1>3 DEF Reads, Named, Here, Told
<1>4. CASE Same(s)
  BY <1>4 DEF Same, Named, Here, Told
<1>5. CASE Leave(s)
  <2>1. cwd'[s] = Outside
    BY <1>0, <1>5 DEF Leave, Inv, ShellsTyped
  <2>2. QED BY <1>0, <2>1 DEF StaysAlone
<1>6. CASE UNCHANGED vars
  BY <1>6 DEF vars, shellVars, Named, Here, Told
<1>7. QED BY <1>0, <1>1, <1>2, <1>3, <1>4, <1>5, <1>6, ShellStep

\* What a step of the hook, of the load of d, and of all others is then.
Asks(s, d) ==
  /\ hook[s] = "start" /\ hook'[s] = "eval"
  /\ loaded'[s] = loaded[s] /\ usr1'[s] = usr1[s] /\ env'[d] = env[d]
  /\ load'[d] = IF load[d] = Idle THEN loaded[s] ELSE load[d]
Goes(s, d) ==
  /\ hook[s] = "eval" /\ hook'[s] = "idle"
  /\ loaded'[s] = loaded[s] /\ usr1'[s] = usr1[s]
  /\ env'[d] = env[d] /\ load'[d] = load[d]
Gets(s, d) ==
  /\ env'[d] = env[d] /\ load'[d] = load[d]
  /\ \/ /\ hook[s] = "idle" /\ hook'[s] = "start" /\ usr1'[s] = usr1[s]
        /\ loaded'[s] \in {loaded[s], Knows(loaded[s], env[d])}
     \/ /\ usr1[s] /\ hook'[s] = hook[s]
        /\ loaded'[s] = Knows(loaded[s], env[d])
Ends(s, d) ==
  /\ load[d] # Idle /\ load'[d] = Idle
  /\ hook'[s] = hook[s] /\ loaded'[s] = loaded[s] /\ (usr1[s] => usr1'[s])
  /\ \E c \in Exports(load[d], d) :
       /\ env'[d] = IF c = Nothing THEN env[d] ELSE c
       /\ c # Nothing => usr1'[s]
Waits(s, d) ==
  /\ hook'[s] = hook[s] /\ loaded'[s] = loaded[s] /\ (usr1[s] => usr1'[s])
  /\ env'[d] = env[d] /\ load'[d] = load[d]

\* Another shell neither starts a load of d nor is told of it.
LEMMA OthersStart ==
  ASSUME Inv, NEW s \in Multiplexed, NEW d \in Dirs, StaysAlone(s, d),
         NEW t \in Shells \ {s}, Start(t), ~DirFails
  PROVE  /\ load'[d] = load[d] /\ waiters'[d] = waiters[d]
         /\ \A u \in Shells : <<u, d>> \in notifies' => <<u, d>> \in notifies
         /\ <<s, d>> \in detaches' => <<s, d>> \in detaches
<1>1. <<s, d>> \in detaches' => <<s, d>> \in detaches
  BY DEF Start, Detaching
<1>2. CASE UNCHANGED <<load, waiters, notifies>>
  BY <1>1, <1>2
<1>3. CASE InDaemon(t) /\ RunDaemon(t, cwd[t])
  <2>1. cwd[t] # d
    BY <1>3 DEF InDaemon, StaysAlone
  <2>2. QED BY <1>1, <1>3, <2>1 DEF RunDaemon, Inv, DirsTyped
<1>4. QED BY <1>2, <1>3 DEF Start

\* A load that ends tells a shell that waits for it, and is not about to leave, of
\* what it puts into the cache.
LEMMA PublishTells ==
  ASSUME DirsTyped, NEW s \in Shells, NEW d \in Dirs, Publish(d), good[d],
         s \in waiters[d], s \notin Leaving(d), hook[s] # "gone"
  PROVE  \E c \in Exports(load[d], d) :
           /\ env'[d] = IF c = Nothing THEN env[d] ELSE c
           /\ c # Nothing => usr1'[s]
<1>1. PICK c \in Exports(load[d], d), output \in BOOLEAN, quit \in SUBSET Leaving(d) :
        /\ env' = IF c = Nothing /\ good[d] THEN env ELSE [env EXCEPT ![d] = c]
        /\ output \/ c # Nothing => Signals(d, quit)
  BY DEF Publish
<1>2. env'[d] = IF c = Nothing THEN env[d] ELSE c
  BY <1>1 DEF DirsTyped
<1>3. c # Nothing => usr1'[s]
  BY <1>1 DEF Signals
<1> QED
  BY <1>2, <1>3

LEMMA MineStep ==
  ASSUME Inv, [Next]_vars, NEW s \in Multiplexed, NEW d \in Dirs, Mine(s, d),
         StaysAlone(s, d), StaysAlone(s, d)', ~DirFails
  PROVE  /\ Mine(s, d)'
         /\ Asks(s, d) \/ Goes(s, d) \/ Gets(s, d) \/ Ends(s, d) \/ Waits(s, d)
<1> DEFINE Alone == waiters[d] \subseteq {s} /\ <<s, d>> \notin detaches
                    /\ \A t \in Shells \ {s} : <<t, d>> \notin notifies
           Step == Asks(s, d) \/ Goes(s, d) \/ Gets(s, d) \/ Ends(s, d) \/ Waits(s, d)
<1>0. s \in Shells /\ d # Outside /\ Here(s, d) /\ Here(s, d)'
  BY HereStep, OutsideIsAPlace DEF Mine
<1> SUFFICES Alone' /\ Step
  BY <1>0 DEF Mine
<1>a. Alone
  BY DEF Mine
<1>b. Cached(s) = env[d]
  BY <1>0 DEF Here, Cached
<1>1. CASE Start(s)
  <2>1. /\ hook[s] = "start" /\ hook'[s] = "eval" /\ RunDaemon(s, d)
        /\ loaded'[s] = loaded[s] /\ current[s] = cwd[s]
        /\ usr1'[s] = usr1[s] /\ env'[d] = env[d]
    <3>1. hook[s] = "start" /\ RunDaemon(s, d) /\ loaded'[s] = loaded[s] /\ hook'[s] = "eval"
      BY <1>0, <1>1, MuxStart DEF Named
    <3>2. current[s] = cwd[s]
      BY <1>0 DEF StaysAlone, Here
    <3>3. UNCHANGED <<usr1, env>>
      BY <1>1 DEF Start
    <3>4. QED BY <3>1, <3>2, <3>3
  <2>2. detaches' = detaches
    BY <1>1, <2>1 DEF Start
  <2>3. load'[d] = IF load[d] = Idle THEN loaded[s] ELSE load[d]
    BY <2>1 DEF RunDaemon, Inv, DirsTyped
  <2>4. waiters'[d] \subseteq {s}
    BY <1>a, <2>1 DEF RunDaemon, Inv, DirsTyped
  <2>5. \A t \in Shells \ {s} : <<t, d>> \notin notifies'
    BY <1>a, <2>1 DEF RunDaemon
  <2>6. QED BY <1>a, <2>1, <2>2, <2>3, <2>4, <2>5 DEF Asks
<1>2. CASE EvalOutput(s)
  <2>1. /\ hook[s] = "eval" /\ hook'[s] = "idle" /\ usr1'[s] = usr1[s]
        /\ loaded'[s] = Knows(loaded[s], printed[s].change)
    BY <1>0, <1>2, Evaluates
  <2>2. loaded'[s] = loaded[s]
    BY <1>0, <2>1 DEF Here, Told, Knows
  <2>3. UNCHANGED dirVars
    BY <1>2 DEF EvalOutput
  <2>4. QED BY <1>a, <2>1, <2>2, <2>3 DEF dirVars, Goes
<1>3. CASE Reads(s)
  BY <1>a, <1>b, <1>3 DEF Reads, dirVars, Gets
<1>4. ASSUME Same(s), env'[d] = env[d], load'[d] = load[d] PROVE Waits(s, d)
  BY <1>4 DEF Same, Waits
<1>5. ASSUME NEW t \in Shells \ {s}, Start(t), Same(s) PROVE Alone' /\ Step
  <2>1. env'[d] = env[d]
    BY <1>5 DEF Start
  <2>2. QED BY <1>a, <1>4, <1>5, <2>1, OthersStart
<1>6. ASSUME NEW t \in Shells \ {s}, Leave(t), Same(s) PROVE Alone' /\ Step
  <2>1. <<s, d>> \notin detaches'
    BY <1>a, <1>6 DEF Leave, Detaching
  <2>2. QED BY <1>a, <1>4, <1>6, <2>1 DEF Leave
<1>7. ASSUME UNCHANGED dirVars, Same(s) PROVE Alone' /\ Step
  BY <1>a, <1>4, <1>7 DEF dirVars
<1>8. ASSUME NEW e \in Dirs, Edit(e), Same(s) PROVE Alone' /\ Step
  BY <1>a, <1>4, <1>8 DEF Edit
<1>9. ASSUME NEW e \in Dirs, End(e)
      PROVE  Alone' /\ (e # d => load'[d] = load[d]) /\ (e = d => load'[d] = Idle)
  BY <1>a, <1>9 DEF End, Inv, DirsTyped
<1>10. ASSUME NEW e \in Dirs, Publish(e), Same(s) PROVE Alone' /\ Step
  <2>1. Alone' /\ (e # d => load'[d] = load[d]) /\ (e = d => load'[d] = Idle)
    BY <1>9, <1>10 DEF Publish
  <2>2. CASE e # d
    <3>1. env'[d] = env[d]
      BY <1>10, <2>2 DEF Publish, Inv, DirsTyped
    <3>2. QED BY <1>4, <1>10, <2>1, <2>2, <3>1
  <2>3. CASE e = d
    <3>1. good[d] /\ load[d] # Idle
      BY <1>10, <2>3 DEF Publish, StaysAlone
    <3>2. waiters[d] = {s} /\ hook[s] # "gone"
      BY <1>0, <1>a, <3>1 DEF Here, Inv, Waited
    <3>3. Publish(d) /\ s \notin Leaving(d)
      BY <1>a, <1>10, <2>3 DEF Leaving
    <3>4. \E c \in Exports(load[d], d) :
            /\ env'[d] = IF c = Nothing THEN env[d] ELSE c
            /\ c # Nothing => usr1'[s]
      BY <3>1, <3>2, <3>3, PublishTells DEF Inv
    <3>5. Ends(s, d)
      BY <1>10, <2>1, <2>3, <3>1, <3>4 DEF Same, Ends
    <3>6. QED BY <2>1, <3>5
  <2>4. QED BY <2>2, <2>3
<1>11. ASSUME NEW t \in Shells, NEW e \in Dirs, HandleNotify(t, e), Same(s) PROVE Alone' /\ Step
  <2>1. e = d => t = s
    BY <1>a, <1>11 DEF HandleNotify
  <2>2. waiters'[d] \subseteq {s}
    BY <1>a, <1>11, <2>1 DEF HandleNotify, Inv, DirsTyped
  <2>3. QED BY <1>a, <1>4, <1>11, <2>2 DEF HandleNotify
<1>12. ASSUME NEW t \in Shells, NEW e \in Dirs, HandleDetach(t, e), Same(s) PROVE Alone' /\ Step
  <2>1. <<t, e>> \in detaches /\ UNCHANGED env
    BY <1>12 DEF HandleDetach
  <2>2. e = d => t # s /\ load[d] # Idle
    BY <1>a, <2>1 DEF Inv, InFlight
  <2>3. CASE waiters[e] = {t}
    <3>1. e # d
      BY <1>a, <2>2, <2>3
    <3>2. End(e)
      BY <1>12, <2>3 DEF HandleDetach
    <3>3. QED BY <1>4, <1>9, <1>12, <2>1, <3>1, <3>2
  <2>4. CASE waiters[e] # {t}
    <3>1. /\ waiters' = [waiters EXCEPT ![e] = @ \ {t}]
          /\ detaches' = detaches \ {<<t, e>>} /\ UNCHANGED <<load, notifies>>
      BY <1>12, <2>4 DEF HandleDetach
    <3>2. waiters'[d] \subseteq {s}
      BY <1>a, <3>1 DEF Inv, DirsTyped
    <3>3. QED BY <1>a, <1>4, <1>12, <2>1, <3>1, <3>2
  <2>5. QED BY <2>3, <2>4
<1>13. CASE UNCHANGED vars
  BY <1>7, <1>13 DEF vars, shellVars, dirVars, Same
<1>14. CASE Leave(s)
  <2>1. cwd'[s] = Outside
    BY <1>0, <1>14 DEF Leave, Inv, ShellsTyped
  <2>2. QED BY <1>0, <2>1 DEF StaysAlone
<1>15. CASE Next /\ Same(s)
  <2>1. ASSUME NEW t \in Shells, NEW p \in Places, ChangeDirectory(t, p) PROVE Alone' /\ Step
    BY <1>7, <1>15, <2>1 DEF ChangeDirectory
  <2>2. ASSUME NEW t \in Shells, Prompt(t) \/ Handler(t) \/ EvalOutput(t) PROVE Alone' /\ Step
    BY <1>7, <1>15, <2>2 DEF Prompt, Handler, EvalOutput
  <2>3. ASSUME Over PROVE Alone' /\ Step
    BY <1>7, <1>15, <2>3 DEF Over, vars, dirVars
  <2>4. QED
    BY <1>1, <1>5, <1>6, <1>8, <1>10, <1>11, <1>12, <1>14, <1>15, <2>1, <2>2, <2>3 DEF Next, Hook
<1>16. QED BY <1>0, <1>1, <1>2, <1>3, <1>13, <1>14, <1>15, ShellStep

-----------------------------------------------------------------------------
(* Scheduling.  That a hook which has begun is enabled, and a handler with  *)
(* a signal, is a hypothesis: it can be read off their guards.             *)

NeverBlocks(s) ==
  /\ hook[s] \in {"start", "eval"} => ENABLED <<Hook(s)>>_vars
  /\ usr1[s] => ENABLED <<Handler(s)>>_vars
NobodyBlocks == \A s \in Shells : NeverBlocks(s)

LEMMA HookGoesOn ==
  ASSUME Inv, NEW s \in Shells, Hook(s)
  PROVE  /\ AtStart(s) => ~AtStart(s)'
         /\ hook[s] = "eval" => hook'[s] # "eval"
BY DEF Hook, Start, EvalOutput, AtStart, Inv, ShellsTyped

LEMMA SyncConverges ==
  ASSUME NEW s \in Shells, NEW p \in Places, ~(p \in Dirs /\ s \in Multiplexed), ~DirFails
  PROVE  /\ [][Next]_vars /\ []Inv /\ []NeverBlocks(s) /\ ShellFairness(s)
         /\ <>[]StaysAlone(s, p) /\ []<>AtStart(s)
         => <>[](loaded[s] = p)
<1>1. StaysAlone(s, p) => InSync(s, p)
  BY DEF InSync
<1>2. Inv /\ [Next]_vars /\ InSync(s, p) /\ InSync(s, p)'
      => /\ AtStart(s) => AtStart(s)' \/ Ran(s)'
         /\ Ran(s) => Ran(s)' \/ NoFile(s)'
         /\ NoFile(s) => NoFile(s)'
         /\ NoFile(s) /\ AtStart(s) => AtStart(s)' \/ Leads(s, p)'
         /\ Leads(s, p) => Leads(s, p)' \/ There(s, p)'
         /\ There(s, p) => There(s, p)'
  BY SyncStep
<1>3. Inv /\ <<Hook(s)>>_vars
      => /\ AtStart(s) => ~AtStart(s)'
         /\ Ran(s) => ~Ran(s)'
         /\ Leads(s, p) => ~Leads(s, p)'
  BY HookGoesOn DEF Ran, Leads
<1>4. NeverBlocks(s) /\ (AtStart(s) \/ Ran(s) \/ Leads(s, p)) => ENABLED <<Hook(s)>>_vars
  BY DEF NeverBlocks, AtStart, Ran, Leads
<1>5. There(s, p) => loaded[s] = p
  BY DEF There
<1> QED
  BY <1>1, <1>2, <1>3, <1>4, <1>5, PTL DEF ShellFairness

\* From the first load that only this shell can cancel to the environment.
Published(d) == env[d] # Nothing /\ env[d].to = d
Settled(s, d) == Mine(s, d) /\ Published(d) /\ loaded[s] = d
Sent(s, d) == Mine(s, d) /\ Published(d) /\ (usr1[s] \/ loaded[s] = d)
Away(s, d) == Settled(s, d) \/ (Mine(s, d) /\ loaded[s] # d)
Fresh(s, d) == Sent(s, d) \/ (Mine(s, d) /\ loaded[s] # d /\ load[d] # d)
Loading(s, d) == Sent(s, d) \/ (Mine(s, d) /\ loaded[s] # d /\ load[d] \notin {d, Idle})

\* What a load of a good .envrc publishes, and when it has to.
LEMMA EndsPublished ==
  ASSUME Inv, NEW s \in Shells, NEW d \in Dirs, good[d], Ends(s, d)
  PROVE  /\ Published(d) => Published(d)'
         /\ load[d] # d => Published(d)' /\ usr1'[s]
<1>1. load[d] \in Places /\ d \in Places /\ d # Outside
  BY OutsideIsAPlace DEF Ends, Inv, DirsTyped
<1>2. PICK c \in Exports(load[d], d) :
        /\ env'[d] = IF c = Nothing THEN env[d] ELSE c
        /\ c # Nothing => usr1'[s]
  BY DEF Ends
<1> DEFINE way == [from |-> load[d], to |-> d]
<1>3. way # Nothing /\ way.to = d
  BY <1>1 DEF Change
<1>4. Exports(load[d], d) = {way} \cup (IF load[d] = d THEN {Nothing} ELSE {})
  BY <1>1 DEF Exports, Export
<1>5. CASE c = way
  BY <1>2, <1>3, <1>5 DEF Published
<1>6. CASE c # way
  <2>1. load[d] = d /\ c = Nothing
    <3>1. CASE load[d] = d
      BY <1>2, <1>4, <1>6, <3>1
    <3>2. CASE load[d] # d
      BY <1>2, <1>4, <1>6, <3>2
    <3>3. QED BY <3>1, <3>2
  <2>2. QED BY <1>2, <2>1 DEF Published
<1>7. QED BY <1>5, <1>6

LEMMA MineStages ==
  ASSUME Inv, [Next]_vars, NEW s \in Multiplexed, NEW d \in Dirs, Mine(s, d),
         StaysAlone(s, d), StaysAlone(s, d)', ~DirFails
  PROVE  /\ Settled(s, d) => Settled(s, d)'
         /\ Sent(s, d) => Sent(s, d)'
         /\ Away(s, d) => Away(s, d)'
         /\ Fresh(s, d) => Fresh(s, d)'
         /\ Fresh(s, d) /\ AtStart(s) => AtStart(s)' \/ Loading(s, d)'
         /\ Loading(s, d) => Loading(s, d)'
<1> DEFINE Goal == /\ Settled(s, d) => Settled(s, d)'
                   /\ Sent(s, d) => Sent(s, d)'
                   /\ Away(s, d) => Away(s, d)'
                   /\ Fresh(s, d) => Fresh(s, d)'
                   /\ Fresh(s, d) /\ AtStart(s) => AtStart(s)' \/ Loading(s, d)'
                   /\ Loading(s, d) => Loading(s, d)'
<1> SUFFICES Goal
  OBVIOUS
<1>0. s \in Shells /\ good[d] /\ loaded[s] \in Places /\ d # Idle /\ loaded[s] # Idle
  BY OutsideIsAPlace DEF StaysAlone, Inv, ShellsTyped
<1>1. Mine(s, d)' /\ (Asks(s, d) \/ Goes(s, d) \/ Gets(s, d) \/ Ends(s, d) \/ Waits(s, d))
  BY MineStep
<1> USE DEF Settled, Sent, Away, Fresh, Loading, AtStart
<1>2. CASE Asks(s, d)
  BY <1>0, <1>1, <1>2 DEF Asks, Published
<1>3. CASE Goes(s, d)
  BY <1>1, <1>3 DEF Goes, Published
<1>4. CASE Gets(s, d)
  <2>1. /\ env'[d] = env[d] /\ load'[d] = load[d]
        /\ hook[s] = "start" => hook'[s] = "start"
        /\ Published(d) => Published(d)'
    BY <1>4 DEF Gets, Published
  <2>2. Published(d) => /\ loaded[s] = d => loaded'[s] = d
                        /\ usr1[s] => usr1'[s] \/ loaded'[s] = d
    BY <1>4 DEF Gets, Published, Knows
  <2>3. loaded[s] # d /\ loaded'[s] = d => Published(d)
    BY <1>4 DEF Gets, Published, Knows
  <2>4. QED BY <1>1, <2>1, <2>2, <2>3
<1>5. CASE Ends(s, d)
  <2>1. /\ Published(d) => Published(d)'
        /\ load[d] # d => Published(d)' /\ usr1'[s]
    BY <1>0, <1>5, EndsPublished
  <2>2. hook'[s] = hook[s] /\ loaded'[s] = loaded[s] /\ (usr1[s] => usr1'[s])
    BY <1>5 DEF Ends
  <2>3. QED BY <1>1, <2>1, <2>2
<1>6. CASE Waits(s, d)
  BY <1>1, <1>6 DEF Waits, Published
<1>7. QED BY <1>1, <1>2, <1>3, <1>4, <1>5, <1>6

\* The handler evaluates what was published.
LEMMA HandlerSettles ==
  ASSUME Inv, [Next]_vars, NEW s \in Multiplexed, NEW d \in Dirs, Sent(s, d), Handler(s),
         StaysAlone(s, d), StaysAlone(s, d)', ~DirFails
  PROVE  Settled(s, d)'
<1>1. Sent(s, d)'
  BY MineStages DEF Sent
<1>2. ~usr1'[s]
  BY DEF Handler, Inv, ShellsTyped
<1>3. QED BY <1>1, <1>2 DEF Sent, Settled

LEMMA MuxConverges ==
  ASSUME NEW s \in Shells, NEW p \in Places, p \in Dirs /\ s \in Multiplexed, ~DirFails
  PROVE  /\ [][Next]_vars /\ []Inv /\ []NeverBlocks(s) /\ ShellFairness(s)
         /\ <>[]StaysAlone(s, p) /\ []<>AtStart(s) /\ []<>(load[p] = Idle)
         => <>[](loaded[s] = p)
<1> DEFINE Ended == load[p] = Idle
           Stays == StaysAlone(s, p)
<1>1. Inv /\ [Next]_vars /\ Stays /\ Stays'
      => /\ AtStart(s) => AtStart(s)' \/ Named(s, p)'
         /\ Named(s, p) => Named(s, p)' \/ Here(s, p)'
         /\ Here(s, p) => Here(s, p)'
  BY HereStep
<1>2. Inv /\ <<Hook(s)>>_vars
      => /\ AtStart(s) => ~AtStart(s)'
         /\ Named(s, p) => ~Named(s, p)'
  BY HookGoesOn DEF Named
<1>3. NeverBlocks(s) /\ (AtStart(s) \/ Named(s, p)) => ENABLED <<Hook(s)>>_vars
  BY DEF NeverBlocks, AtStart, Named
<1>4. Inv /\ Here(s, p) /\ Ended => Mine(s, p)
  BY DEF Inv, Waited, InFlight, Mine
<1>5. Inv /\ [Next]_vars /\ Stays /\ Stays' /\ Mine(s, p)
      => /\ Mine(s, p)'
         /\ Settled(s, p) => Settled(s, p)'
         /\ Sent(s, p) => Sent(s, p)'
         /\ Away(s, p) => Away(s, p)'
         /\ Fresh(s, p) => Fresh(s, p)'
         /\ Fresh(s, p) /\ AtStart(s) => AtStart(s)' \/ Loading(s, p)'
         /\ Loading(s, p) => Loading(s, p)'
  BY MineStep, MineStages
<1>6. /\ Mine(s, p) /\ ~(loaded[s] = p) => Away(s, p)
      /\ Away(s, p) /\ Ended => Fresh(s, p)
      /\ Loading(s, p) /\ Ended => Sent(s, p)
      /\ Sent(s, p) => Settled(s, p) \/ usr1[s]
      /\ Settled(s, p) => loaded[s] = p
  BY OutsideIsAPlace DEF Away, Fresh, Loading, Sent, Settled
<1>7. Settled(s, p) \/ Away(s, p) \/ Fresh(s, p) \/ Loading(s, p) \/ Sent(s, p) => Mine(s, p)
  BY DEF Settled, Away, Fresh, Loading, Sent
<1>8. Inv /\ [Next]_vars /\ Stays /\ Stays' /\ Sent(s, p) /\ <<Handler(s)>>_vars => Settled(s, p)'
  BY HandlerSettles
<1>9. NeverBlocks(s) /\ usr1[s] => ENABLED <<Handler(s)>>_vars
  BY DEF NeverBlocks
<1> HIDE DEF Stays, Ended
<1>10. /\ [][Next]_vars /\ []Inv /\ []NeverBlocks(s) /\ ShellFairness(s)
       /\ <>[]Stays /\ []<>AtStart(s) /\ []<>Ended
       => <>[]Mine(s, p)
  BY <1>1, <1>2, <1>3, <1>4, <1>5, PTL DEF ShellFairness
<1>11. /\ [][Next]_vars /\ []Inv /\ []NeverBlocks(s) /\ ShellFairness(s)
       /\ <>[]Stays /\ <>[]Mine(s, p) /\ []<>AtStart(s) /\ []<>Ended
       => <>[](~(loaded[s] = p) => <>Settled(s, p))
  BY <1>2, <1>3, <1>5, <1>6, <1>7, <1>8, <1>9, PTL DEF ShellFairness
<1> QED
  BY <1>5, <1>6, <1>7, <1>10, <1>11, PTL DEF Stays, Ended, ShellFairness

\* A shell that stays in a place alone and keeps prompting ends up with what
\* belongs there and keeps it, whatever was published, was in flight or was under
\* way when it came, with and without the cache: if the .envrc is good, loads end,
\* and runtime directories can be created.
THEOREM ConvergesHolds == FairSpec /\ []NobodyBlocks => Converges
<1>1. ASSUME NEW s \in Shells, NEW p \in Places, ~DirFails
      PROVE  FairSpec /\ []NobodyBlocks =>
               (/\ <>[]StaysAlone(s, p)
                /\ []<>(hook[s] = "start")
                /\ p \in Dirs => []<>(load[p] = Idle)
                => <>[](loaded[s] = p))
  <2>1. NobodyBlocks => NeverBlocks(s)
    BY DEF NobodyBlocks
  <2>2. FairSpec => Spec /\ ShellFairness(s)
    BY DEF FairSpec
  <2>3. hook[s] = "start" => AtStart(s)
    BY DEF AtStart
  <2>4. CASE p \in Dirs /\ s \in Multiplexed
    <3>1. /\ [][Next]_vars /\ []Inv /\ []NeverBlocks(s) /\ ShellFairness(s)
          /\ <>[]StaysAlone(s, p) /\ []<>AtStart(s) /\ []<>(load[p] = Idle)
          => <>[](loaded[s] = p)
      BY <1>1, <2>4, MuxConverges
    <3>2. p \in Dirs
      BY <2>4
    <3>3. QED
      BY <2>1, <2>2, <2>3, <3>1, <3>2, InvHolds, PTL DEF Spec
  <2>5. CASE ~(p \in Dirs /\ s \in Multiplexed)
    <3>1. /\ [][Next]_vars /\ []Inv /\ []NeverBlocks(s) /\ ShellFairness(s)
          /\ <>[]StaysAlone(s, p) /\ []<>AtStart(s)
          => <>[](loaded[s] = p)
      BY <1>1, <2>5, SyncConverges
    <3>2. QED
      BY <2>1, <2>2, <2>3, <3>1, InvHolds, PTL DEF Spec
  <2>6. QED BY <2>4, <2>5
<1> QED
  BY <1>1 DEF Converges
=============================================================================
