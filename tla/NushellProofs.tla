---------------------------- MODULE NushellProofs ----------------------------
(***************************************************************************)
(* Theorems about module Nushell, for any number of nushells and           *)
(* directories.                                                            *)
(*                                                                         *)
(* Synced says what a nushell without a multiplexer has in its hands at    *)
(* each point of its hook.  Leading, for any nushell, says where the files *)
(* lead: that of a directory to it or outside, a nushell's own outside.    *)
(* On these rests the convergence of one that stays.                       *)
(***************************************************************************)
EXTENDS Nushell, TLAPS

(***************************************************************************)
(* The type invariant in parts: the nushells, the files, the loads.        *)
(***************************************************************************)
NuTyped ==
  /\ inMux \in [Nus -> BOOLEAN] /\ shared \in BOOLEAN
  /\ cwd \in [Nus -> Places] /\ hook \in [Nus -> {"idle", "start", "eval"}]
  /\ seen \in [Nus -> Change \cup {Nothing}] /\ printed \in [Nus -> Output]
  /\ current \in [Nus -> Places] /\ envFile \in [Nus -> Places]
  /\ own \in [Nus -> Change \cup {Nothing}]
  /\ present \in [Nus -> SUBSET Dirs] /\ loaded \in [Nus -> Places]

FileTyped ==
  /\ good \in [Dirs -> BOOLEAN] /\ env \in [Dirs -> Change \cup {Nothing}]
  /\ json \in [Dirs -> BOOLEAN]

LoadTyped ==
  /\ asJson \in [Dirs -> BOOLEAN]
  /\ load \in [Dirs -> Places \cup {Idle}] /\ awaited \in [Dirs -> BOOLEAN]
  /\ forces \subseteq Dirs
  /\ \A d \in Dirs : load[d] = Idle => ~awaited[d] /\ d \notin forces

(***************************************************************************)
(* A nushell that has its directories to itself.  What is in its files was *)
(* either made for what it has loaded now, or is what it loaded last.      *)
(***************************************************************************)
Alone(s) == ~shared /\ ~inMux[s] /\ Nus = {s}

\* Evaluating c once more changes nothing where x is loaded.
Fits(c, x) == c # Nothing => c.to = x

\* The content of the file the hook knows, and of the one it will read next.
Known(s) == Content(envFile[s], own[s])
Fresh(s) == Content(NextFile(s), NextOwn(s))

Synced(s) ==
  /\ present[s] = {loaded[s]} \cap Dirs
  /\ hook[s] \in {"idle", "start"} => Fits(Known(s), loaded[s])
  /\ hook[s] \in {"start", "eval"} => Fits(seen[s], loaded[s])
  /\ hook[s] = "eval" => Fits(Fresh(s), loaded[s]) \/ Fresh(s).from = loaded[s]

\* No load ever runs, so that every file is its own and can be read.
OwnFiles == \A d \in Dirs : load[d] = Idle /\ json[d]

AloneSynced == \A s \in Nus : Alone(s) => Synced(s) /\ OwnFiles

Inv == NuTyped /\ FileTyped /\ LoadTyped /\ AloneSynced

USE OutsideAssumption, NothingAssumption, VisitsAssumption, IdleAssumption, UnannouncedAssumption

-----------------------------------------------------------------------------
(* Environments.                                                           *)

LEMMA OutsideIsAPlace == Outside \in Places /\ \A d \in Dirs : d \in Places /\ d # Outside
BY DEF Places

\* What direnv prints takes the way from what it knows of.
LEMMA ExportLeads ==
  ASSUME NEW x \in Places, NEW p \in Places, NEW ok, NEW c \in Export(x, p, ok)
  PROVE  c \in Change \cup {Nothing} /\ (c # Nothing => c.from = x)
<1>1. CASE p = Outside
  BY <1>1, OutsideIsAPlace DEF Export, Change
<1>2. CASE p # Outside /\ ok
  BY <1>2, OutsideIsAPlace DEF Export, Change
<1>3. CASE p # Outside /\ ~ok
  BY <1>3, OutsideIsAPlace DEF Export, Change
<1>4. QED BY <1>1, <1>2, <1>3

LEMMA EvaluateTyped ==
  ASSUME NEW P \in SUBSET Dirs, NEW x \in Places, NEW c \in Change \cup {Nothing}
  PROVE  Variables(P, c) \in SUBSET Dirs /\ Knows(x, c) \in Places
<1>1. Variables(P, c) \in SUBSET Dirs
  BY DEF Variables
<1>2. Knows(x, c) \in Places
  BY DEF Knows, Change
<1>3. QED BY <1>1, <1>2

\* A change that fits, or that was made for what is loaded, keeps a whole
\* environment whole; one that fits leaves what is loaded alone.
LEMMA EvaluateWhole ==
  ASSUME NEW x \in Places, NEW c \in Change \cup {Nothing},
         Fits(c, x) \/ c.from = x
  PROVE  /\ Variables({x} \cap Dirs, c) = {Knows(x, c)} \cap Dirs
         /\ Fits(c, x) => Knows(x, c) = x
         /\ Fits(c, Knows(x, c))
<1>1. CASE c = Nothing
  BY <1>1 DEF Variables, Knows, Fits
<1>2. CASE c # Nothing
  BY <1>2 DEF Variables, Knows, Fits
<1>3. QED BY <1>1, <1>2

LEMMA ContentTyped ==
  ASSUME FileTyped, NEW f \in Places, NEW mine \in Change \cup {Nothing}
  PROVE  Content(f, mine) \in Change \cup {Nothing}
BY DEF Content, FileTyped, Places

LEMMA NextTyped ==
  ASSUME NuTyped, NEW s \in Nus
  PROVE  NextFile(s) \in Places /\ NextOwn(s) \in Change \cup {Nothing}
<1>1. /\ printed[s].file \in Places \cup {Unannounced}
      /\ printed[s].own \in Change \cup {Nothing}
  BY DEF NuTyped, Output
<1>2. envFile[s] \in Places /\ own[s] \in Change \cup {Nothing}
  BY DEF NuTyped
<1>3. NextFile(s) \in Places
  BY <1>1, <1>2 DEF NextFile
<1>4. NextOwn(s) \in Change \cup {Nothing}
  BY <1>1, <1>2 DEF NextOwn
<1>5. QED BY <1>3, <1>4

-----------------------------------------------------------------------------
(* Types.                                                                  *)

\* What a start outside prints, and what one inside may: the way from what the
\* nushell has loaded to where it is.
LEMMA ExportsTyped ==
  ASSUME NuTyped, NEW s \in Nus, NEW c \in Exports(s)
  PROVE  c \in Change \cup {Nothing} /\ (c # Nothing => c.from = loaded[s])
<1>1. loaded[s] \in Places /\ cwd[s] \in Places
  BY DEF NuTyped
<1>2. QED BY <1>1, ExportLeads DEF Exports

LEMMA PrintTyped ==
  ASSUME NuTyped, NEW s \in Nus, NEW p \in Places, NEW f \in Places \cup {Unannounced},
         NEW c \in Change \cup {Nothing}, Emit(s, p, f, c)
  PROVE  /\ printed' \in [Nus -> Output]
         /\ printed'[s].file = f /\ printed'[s].own = c
<1>1. [current |-> p, file |-> f, own |-> c] \in Output
  BY DEF Output
<1>2. QED BY <1>1 DEF Emit, NuTyped

\* A start prints a record and leaves the rest of the nushell alone; it may
\* make the file of its directory, or ask for a load.
LEMMA StartTyped ==
  ASSUME NuTyped, FileTyped, LoadTyped, NEW s \in Nus, Start(s)
  PROVE  NuTyped' /\ FileTyped' /\ LoadTyped'
<1>1. cwd[s] \in Places /\ loaded[s] \in Places
  BY DEF NuTyped
<1>2. CASE StartOutside(s)
  <2>1. PICK c \in Exports(s) :
          Emit(s, Outside, IF c = Nothing THEN Unannounced ELSE Outside, c)
    BY <1>2 DEF StartOutside
  <2>2. printed' \in [Nus -> Output]
    BY <2>1, ExportsTyped, OutsideIsAPlace, PrintTyped
  <2>3. NuTyped'
    BY <2>2 DEF Start, NuTyped
  <2>4. FileTyped' /\ LoadTyped'
    BY <1>2 DEF StartOutside, fileVars, loadVars, FileTyped, LoadTyped
  <2>5. QED BY <2>3, <2>4
<1>3. CASE StartInside(s)
  <2>0. cwd[s] \in Dirs /\ cwd[s] \in Places
    BY <1>1, <1>3 DEF StartInside
  <2>1. CASE Background(s, cwd[s])
    <3>1. Emit(s, cwd[s], cwd[s], Nothing) \/ Emit(s, cwd[s], Unannounced, Nothing)
      BY <2>1 DEF Background
    <3>2. printed' \in [Nus -> Output]
      BY <2>0, <3>1, PrintTyped
    <3>3. /\ load' \in [Dirs -> Places \cup {Idle}] /\ asJson' \in [Dirs -> BOOLEAN]
          /\ \A d \in Dirs : load'[d] = Idle => load[d] = Idle
      BY <1>1, <2>0, <2>1 DEF Background, LoadTyped
    <3>4. QED BY <1>3, <2>1, <3>2, <3>3
            DEF Start, StartInside, StopOld, Background, NuTyped, FileTyped, LoadTyped
  <2>2. CASE Capture(s, cwd[s]) /\ UNCHANGED <<load, asJson>>
    <3>1. Emit(s, cwd[s], cwd[s], Nothing) \/ Emit(s, cwd[s], Unannounced, Nothing)
      BY <2>2 DEF Capture
    <3>2. printed' \in [Nus -> Output]
      BY <2>0, <3>1, PrintTyped
    <3>3. env' \in [Dirs -> Change \cup {Nothing}] /\ json' \in [Dirs -> BOOLEAN]
      <4>1. \A c \in Exports(s) : c \in Change \cup {Nothing}
        BY <2>0, ExportsTyped
      <4>2. CASE UNCHANGED <<env, json>>
        BY <4>2 DEF FileTyped
      <4>3. CASE ~UNCHANGED <<env, json>>
        <5>1. PICK c \in Exports(s) :
                env' = [env EXCEPT ![cwd[s]] = c] /\ json' = [json EXCEPT ![cwd[s]] = TRUE]
          BY <2>2, <4>3 DEF Capture
        <5>2. QED BY <4>1, <5>1 DEF FileTyped
      <4>4. QED BY <4>2, <4>3
    <3>4. QED BY <1>3, <2>2, <3>2, <3>3
            DEF Start, StartInside, StopOld, NuTyped, FileTyped, LoadTyped
  <2>3. QED BY <1>3, <2>1, <2>2 DEF StartInside
<1>4. QED BY <1>2, <1>3 DEF Start

LEMMA ApplyTyped ==
  ASSUME NuTyped, FileTyped, NEW s \in Nus, Apply(s)
  PROVE  NuTyped'
<1>1. /\ NextFile(s) \in Places /\ NextOwn(s) \in Change \cup {Nothing}
      /\ Content(NextFile(s), NextOwn(s)) \in Change \cup {Nothing}
  BY NextTyped, ContentTyped
<1>2. present[s] \in SUBSET Dirs /\ loaded[s] \in Places /\ seen[s] \in Change \cup {Nothing}
  BY DEF NuTyped
<1>3. printed[s].current \in Places
  BY DEF NuTyped, Output
<1>4. seen' \in [Nus -> Change \cup {Nothing}] /\ hook' \in [Nus -> {"idle", "start", "eval"}]
  BY DEF Apply, NuTyped
<1>5. printed' \in [Nus -> Output]
  BY OutsideIsAPlace DEF Apply, NuTyped, NoOutput, Output
<1>6. CASE Readable(NextFile(s))
  <2>1. Merge(s, seen[s], Content(NextFile(s), NextOwn(s)))
    BY <1>6 DEF Apply
  <2>2. /\ Variables(present[s], seen[s]) \in SUBSET Dirs
        /\ Knows(loaded[s], seen[s]) \in Places
    BY <1>2, EvaluateTyped
  <2>3. present' \in [Nus -> SUBSET Dirs] /\ loaded' \in [Nus -> Places]
    BY <1>1, <2>1, <2>2, EvaluateTyped DEF Merge, NuTyped
  <2>4. /\ current' \in [Nus -> Places] /\ envFile' \in [Nus -> Places]
        /\ own' \in [Nus -> Change \cup {Nothing}]
    BY <1>1, <1>3, <1>6 DEF Apply, NuTyped
  <2>5. QED BY <1>4, <1>5, <2>3, <2>4 DEF Apply, NuTyped
<1>7. CASE ~Readable(NextFile(s))
  BY <1>4, <1>5, <1>7 DEF Apply, NuTyped
<1>8. QED BY <1>6, <1>7

LEMMA EndTyped ==
  ASSUME LoadTyped, NEW d \in Dirs, End(d)
  PROVE  LoadTyped'
BY DEF End, LoadTyped

LEMMA NextTypes ==
  ASSUME NuTyped, FileTyped, LoadTyped, [Next]_vars
  PROVE  NuTyped' /\ FileTyped' /\ LoadTyped'
<1>1. ASSUME NEW s \in Nus, Prompt(s) PROVE NuTyped' /\ FileTyped' /\ LoadTyped'
  <2>1. Content(envFile[s], own[s]) \in Change \cup {Nothing}
    BY ContentTyped DEF NuTyped
  <2>2. NuTyped'
    BY <1>1, <2>1 DEF Prompt, NuTyped
  <2>3. QED BY <1>1, <2>2 DEF Prompt, fileVars, loadVars, FileTyped, LoadTyped
<1>2. ASSUME NEW s \in Nus, Start(s) PROVE NuTyped' /\ FileTyped' /\ LoadTyped'
  BY <1>2, StartTyped
<1>3. ASSUME NEW s \in Nus, Apply(s) PROVE NuTyped' /\ FileTyped' /\ LoadTyped'
  <2>1. NuTyped'
    BY <1>3, ApplyTyped
  <2>2. QED BY <1>3, <2>1 DEF Apply, fileVars, loadVars, FileTyped, LoadTyped
<1>4. ASSUME NEW s \in Nus, NEW p \in Places, ChangeDirectory(s, p)
      PROVE  NuTyped' /\ FileTyped' /\ LoadTyped'
  BY <1>4 DEF ChangeDirectory, fileVars, loadVars, NuTyped, FileTyped, LoadTyped
<1>5. ASSUME NEW d \in Dirs, Edit(d) PROVE NuTyped' /\ FileTyped' /\ LoadTyped'
  BY <1>5 DEF Edit, nuVars, loadVars, NuTyped, FileTyped, LoadTyped
<1>6. ASSUME NEW d \in Dirs, Publish(d) PROVE NuTyped' /\ FileTyped' /\ LoadTyped'
  <2>1. load[d] \in Places
    BY <1>6 DEF Publish, LoadTyped
  <2>2. \A c \in Export(load[d], d, good[d]) : c \in Change \cup {Nothing}
    BY <2>1, OutsideIsAPlace, ExportLeads
  <2>3. FileTyped'
    <3>1. PICK c \in Change \cup {Nothing} :
            \/ UNCHANGED <<env, json>>
            \/ /\ env' = [env EXCEPT ![d] = c]
               /\ json' = [json EXCEPT ![d] = c = Nothing \/ asJson[d]]
      BY <1>6, <2>2 DEF Publish
    <3>2. good' = good /\ asJson[d] \in BOOLEAN
      BY <1>6 DEF Publish, LoadTyped
    <3>3. env' \in [Dirs -> Change \cup {Nothing}]
      BY <3>1 DEF FileTyped
    <3>4. json' \in [Dirs -> BOOLEAN]
      BY <3>1, <3>2 DEF FileTyped
    <3>5. QED BY <3>2, <3>3, <3>4 DEF FileTyped
  <2>4. LoadTyped'
    BY <1>6, EndTyped DEF Publish
  <2>5. QED BY <1>6, <2>3, <2>4 DEF Publish, nuVars, NuTyped
<1>7. ASSUME NEW d \in Dirs, HandleForce(d) PROVE NuTyped' /\ FileTyped' /\ LoadTyped'
  <2>1. LoadTyped'
    BY <1>7, EndTyped DEF HandleForce
  <2>2. QED BY <1>7, <2>1 DEF HandleForce, nuVars, fileVars, NuTyped, FileTyped
<1>8. ASSUME NEW d \in Dirs, OthersLeave(d) PROVE NuTyped' /\ FileTyped' /\ LoadTyped'
  <2>1. LoadTyped'
    BY <1>8, EndTyped DEF OthersLeave
  <2>2. QED BY <1>8, <2>1 DEF OthersLeave, nuVars, fileVars, NuTyped, FileTyped
<1>9. ASSUME NEW x \in Places, NEW d \in Dirs, OtherStarts(x, d)
      PROVE  NuTyped' /\ FileTyped' /\ LoadTyped'
  <2>1. NuTyped' /\ FileTyped'
    BY <1>9 DEF OtherStarts, nuVars, fileVars, NuTyped, FileTyped
  <2>2. /\ load' \in [Dirs -> Places \cup {Idle}] /\ asJson' \in [Dirs -> BOOLEAN]
        /\ load'[d] # Idle /\ \A e \in Dirs \ {d} : load'[e] = load[e]
    BY <1>9 DEF OtherStarts, LoadTyped
  <2>3. QED BY <1>9, <2>1, <2>2 DEF OtherStarts, LoadTyped
<1>10. CASE UNCHANGED vars
  BY <1>10 DEF vars, nuVars, fileVars, loadVars, NuTyped, FileTyped, LoadTyped
<1>11. QED
  BY <1>1, <1>2, <1>3, <1>4, <1>5, <1>6, <1>7, <1>8, <1>9, <1>10 DEF Next

-----------------------------------------------------------------------------
(* A nushell that is alone.                                                *)

\* Whether a nushell is alone never changes.
LEMMA AloneStays ==
  ASSUME NuTyped, [Next]_vars, NEW s \in Nus
  PROVE  Alone(s)' => Alone(s)
<1>1. UNCHANGED <<inMux, shared>>
  BY DEF Next, vars, nuVars, Prompt, Start, Apply, ChangeDirectory, Edit, Publish, HandleForce,
     OtherStarts, OthersLeave
<1>2. QED BY <1>1 DEF Alone

\* A start announces a file it has just filled, or leaves all files as they were.
LEMMA StartAnnounces ==
  ASSUME NuTyped, FileTyped, NEW s \in Nus, Alone(s), OwnFiles, Start(s)
  PROVE  /\ OwnFiles'
         /\ Fresh(s)' = Known(s) \/ Fresh(s)'.from = loaded[s]
<1>1. /\ envFile[s] \in Places /\ own[s] \in Change \cup {Nothing}
      /\ envFile' = envFile /\ own' = own
  BY DEF NuTyped, Start
<1>2. ASSUME printed'[s].file = Unannounced, env' = env PROVE Fresh(s)' = Known(s)
  <2>1. NextFile(s)' = envFile[s]
    BY <1>1, <1>2 DEF NextFile
  <2>2. NextOwn(s)' = IF envFile[s] # Outside THEN Nothing ELSE own[s]
    BY <1>1, <1>2, <2>1, OutsideIsAPlace DEF NextOwn
  <2>3. QED BY <1>2, <2>1, <2>2 DEF Fresh, Known, Content
<1>3. CASE StartOutside(s)
  <2>1. PICK c \in Exports(s) :
          Emit(s, Outside, IF c = Nothing THEN Unannounced ELSE Outside, c)
    BY <1>3 DEF StartOutside
  <2>2. /\ printed'[s].file = IF c = Nothing THEN Unannounced ELSE Outside
        /\ printed'[s].own = c
    BY <2>1, ExportsTyped, OutsideIsAPlace, PrintTyped
  <2>3. OwnFiles' /\ env' = env
    BY <1>3 DEF StartOutside, fileVars, loadVars, OwnFiles
  <2>4. CASE c = Nothing
    BY <1>2, <2>2, <2>3, <2>4
  <2>5. CASE c # Nothing
    <3>1. NextFile(s)' = Outside
      BY <2>2, <2>5, OutsideIsAPlace DEF NextFile
    <3>2. NextOwn(s)' = c
      BY <2>2, <2>5, <3>1 DEF NextOwn
    <3>3. QED BY <2>3, <2>5, <3>1, <3>2, ExportsTyped DEF Fresh, Content
  <2>6. QED BY <2>4, <2>5
<1>4. CASE StartInside(s)
  <2>1. cwd[s] \in Dirs /\ cwd[s] \in Places /\ Capture(s, cwd[s]) /\ UNCHANGED load
    BY <1>4, OutsideIsAPlace DEF StartInside, Alone
  <2>2. CASE Emit(s, cwd[s], Unannounced, Nothing) /\ UNCHANGED <<env, json>>
    <3>1. printed'[s].file = Unannounced
      BY <2>1, <2>2, PrintTyped
    <3>2. QED BY <1>2, <2>1, <2>2, <3>1 DEF OwnFiles
  <2>3. ASSUME NEW c \in Exports(s) \ {Nothing},
               env' = [env EXCEPT ![cwd[s]] = c], json' = [json EXCEPT ![cwd[s]] = TRUE],
               Emit(s, cwd[s], cwd[s], Nothing)
        PROVE  OwnFiles' /\ Fresh(s)'.from = loaded[s]
    <3>1. printed'[s].file = cwd[s]
      BY <2>1, <2>3, PrintTyped
    <3>2. NextFile(s)' = cwd[s] /\ cwd[s] # Outside
      BY <2>1, <3>1, OutsideIsAPlace DEF NextFile
    <3>3. Fresh(s)' = c
      BY <2>1, <2>3, <3>2 DEF Fresh, Content, FileTyped
    <3>4. OwnFiles'
      BY <2>1, <2>3 DEF OwnFiles, FileTyped
    <3>5. QED BY <2>3, <3>3, <3>4, ExportsTyped
  <2>4. QED BY <2>1, <2>2, <2>3 DEF Capture
<1>5. QED BY <1>3, <1>4 DEF Start

LEMMA StartSynced ==
  ASSUME NuTyped, FileTyped, NEW s \in Nus, Alone(s), OwnFiles, Synced(s), Start(s)
  PROVE  Synced(s)' /\ OwnFiles'
<1>1. hook[s] = "start" /\ hook'[s] = "eval" /\ UNCHANGED <<seen, present, loaded>>
  BY DEF Start, NuTyped
<1>2. Fits(Known(s), loaded[s]) /\ Fits(seen[s], loaded[s])
  BY <1>1 DEF Synced
<1>3. Fits(Fresh(s)', loaded[s]) \/ Fresh(s)'.from = loaded[s]
  BY <1>2, StartAnnounces
<1>4. QED BY <1>1, <1>2, <1>3, StartAnnounces DEF Synced, Fits

LEMMA ApplySynced ==
  ASSUME NuTyped, FileTyped, NEW s \in Nus, Alone(s), OwnFiles, Synced(s), Apply(s)
  PROVE  Synced(s)' /\ OwnFiles'
<1>1. hook[s] = "eval" /\ hook'[s] = "idle"
  BY DEF Apply, NuTyped
<1>2. OwnFiles' /\ env' = env
  BY DEF Apply, fileVars, loadVars, OwnFiles
<1>3. Readable(NextFile(s))
  BY DEF Readable, OwnFiles
<1>4. /\ envFile'[s] = NextFile(s) /\ own'[s] = NextOwn(s)
      /\ Merge(s, seen[s], Fresh(s))
  BY <1>3 DEF Apply, NuTyped, Fresh
<1>5. Known(s)' = Fresh(s)
  BY <1>2, <1>4 DEF Known, Fresh, Content
<1>6. /\ seen[s] \in Change \cup {Nothing} /\ loaded[s] \in Places
      /\ Fresh(s) \in Change \cup {Nothing}
  BY NextTyped, ContentTyped DEF NuTyped, Fresh
<1>7. /\ Variables(present[s], seen[s]) = {loaded[s]} \cap Dirs
      /\ Knows(loaded[s], seen[s]) = loaded[s]
  BY <1>1, <1>6, EvaluateWhole DEF Synced
<1>8. /\ Variables({loaded[s]} \cap Dirs, Fresh(s)) = {Knows(loaded[s], Fresh(s))} \cap Dirs
      /\ Fits(Fresh(s), Knows(loaded[s], Fresh(s)))
  BY <1>1, <1>6, EvaluateWhole DEF Synced
<1>9. /\ present'[s] = Variables({loaded[s]} \cap Dirs, Fresh(s))
      /\ loaded'[s] = Knows(loaded[s], Fresh(s))
  BY <1>4, <1>7 DEF Merge, NuTyped
<1>10. present'[s] = {loaded'[s]} \cap Dirs
  BY <1>8, <1>9
<1>11. Fits(Known(s)', loaded'[s])
  BY <1>5, <1>8, <1>9
<1>12. QED BY <1>1, <1>2, <1>10, <1>11 DEF Synced, Fits

\* What Synced says depends on these variables only.
LEMMA SyncedFrame ==
  ASSUME NEW s \in Nus, OwnFiles, Synced(s),
         UNCHANGED <<hook, seen, printed, envFile, own, present, loaded, env, json, load>>
  PROVE  Synced(s)' /\ OwnFiles'
<1>1. Known(s)' = Known(s) /\ Fresh(s)' = Fresh(s)
  BY DEF Known, Fresh, Content, NextFile, NextOwn
<1>2. QED BY <1>1 DEF Synced, Fits, OwnFiles

LEMMA PromptSynced ==
  ASSUME NuTyped, NEW s \in Nus, OwnFiles, Synced(s), Prompt(s)
  PROVE  Synced(s)' /\ OwnFiles'
<1>1. /\ hook[s] = "idle" /\ hook'[s] = "start" /\ seen'[s] = Known(s)
      /\ UNCHANGED <<envFile, own, present, loaded, env, json, load>>
  BY DEF Prompt, NuTyped, Known, fileVars, loadVars
<1>2. Known(s)' = Known(s)
  BY <1>1 DEF Known, Content
<1>3. QED BY <1>1, <1>2 DEF Synced, Fits, OwnFiles

LEMMA NextSynced == Inv /\ [Next]_vars => AloneSynced'
<1> SUFFICES ASSUME Inv, [Next]_vars, NEW s \in Nus, Alone(s)'
             PROVE  Synced(s)' /\ OwnFiles'
  BY DEF AloneSynced
<1>0. NuTyped /\ FileTyped /\ LoadTyped
  BY DEF Inv
<1>1. /\ Alone(s) /\ Synced(s) /\ OwnFiles
      /\ \A t \in Nus : t = s
      /\ \A d \in Dirs : load[d] = Idle /\ d \notin forces /\ ~awaited[d]
  <2>1. Alone(s)
    BY <1>0, AloneStays
  <2>2. Synced(s) /\ OwnFiles
    BY <2>1 DEF Inv, AloneSynced
  <2>3. QED BY <1>0, <2>1, <2>2 DEF Alone, OwnFiles, LoadTyped
<1>2. CASE Prompt(s)
  BY <1>0, <1>1, <1>2, PromptSynced
<1>3. CASE Start(s)
  BY <1>0, <1>1, <1>3, StartSynced
<1>4. CASE Apply(s)
  BY <1>0, <1>1, <1>4, ApplySynced
<1>5. ASSUME NEW p \in Places, ChangeDirectory(s, p) PROVE Synced(s)' /\ OwnFiles'
  BY <1>1, <1>5, SyncedFrame DEF ChangeDirectory, fileVars, loadVars
<1>6. ASSUME NEW d \in Dirs, Edit(d) PROVE Synced(s)' /\ OwnFiles'
  BY <1>1, <1>6, SyncedFrame DEF Edit, nuVars, loadVars
<1>7. ASSUME NEW d \in Dirs PROVE ~Publish(d) /\ ~HandleForce(d) /\ ~OthersLeave(d)
  BY <1>1 DEF Publish, HandleForce, OthersLeave
<1>8. ASSUME NEW x \in Places, NEW d \in Dirs PROVE ~OtherStarts(x, d)
  BY <1>1 DEF OtherStarts, Alone
<1>9. CASE UNCHANGED vars
  BY <1>1, <1>9, SyncedFrame DEF vars, nuVars, fileVars, loadVars
<1>10. QED
  BY <1>1, <1>2, <1>3, <1>4, <1>5, <1>6, <1>7, <1>8, <1>9 DEF Next

-----------------------------------------------------------------------------
(* Theorems.                                                               *)

LEMMA InitInv == Init => Inv
<1> SUFFICES ASSUME Init PROVE Inv
  OBVIOUS
<1>1. NuTyped
  BY OutsideIsAPlace DEF Init, NuTyped, NoOutput, Output
<1>2. FileTyped /\ LoadTyped
  BY DEF Init, FileTyped, LoadTyped
<1>3. AloneSynced
  <2> SUFFICES ASSUME NEW s \in Nus PROVE Synced(s) /\ OwnFiles
    BY DEF AloneSynced
  <2>1. Known(s) = Nothing
    BY OutsideIsAPlace DEF Init, Known, Content
  <2>2. QED BY <2>1, OutsideIsAPlace DEF Init, Synced, OwnFiles, Fits
<1>4. QED BY <1>1, <1>2, <1>3 DEF Inv

LEMMA InvHolds == Spec => []Inv
<1>1. Inv /\ [Next]_vars => Inv'
  BY NextTypes, NextSynced DEF Inv
<1>2. QED BY InitInv, <1>1, PTL DEF Spec

\* The state of nushells, files and loads keeps its type, and a STOP is on its
\* way, or another shell waits, only where a load is under way.
THEOREM TypeCorrect == Spec => []TypeOK
<1>1. Inv => TypeOK
  BY DEF Inv, NuTyped, FileTyped, LoadTyped, TypeOK
<1>2. QED BY InvHolds, <1>1, PTL

\* A nushell outside a multiplexer that has its directories to itself is never left
\* with variables direnv does not know of, though its hook applies every file
\* before and after each start, and directories break and runtime directories fail.
THEOREM SyncWholeHolds == Spec => []SyncWhole
<1>1. Inv => SyncWhole
  BY DEF Inv, AloneSynced, Alone, Synced, SyncWhole
<1>2. QED BY InvHolds, <1>1, PTL

-----------------------------------------------------------------------------
(* A nushell that stays ends up with what belongs there.                   *)
(*                                                                         *)
(* What is published for a directory leads to it or outside; a file of a   *)
(* nushell's own leads outside.                                            *)
Leading ==
  /\ \A d \in Dirs : env[d] # Nothing => env[d].to \in {d, Outside}
  /\ \A s \in Nus : Fits(own[s], Outside) /\ Fits(printed[s].own, Outside)

Typed == NuTyped /\ FileTyped /\ LoadTyped
LeadInv == Typed /\ Leading

\* What direnv prints leads to the place or, if that is broken, outside.
LEMMA ExportTo ==
  ASSUME NEW x \in Places, NEW p \in Places, NEW ok, NEW c \in Export(x, p, ok), c # Nothing
  PROVE  /\ c.to \in {p, Outside}
         /\ ok => c.to = p
<1>1. CASE p = Outside
  BY <1>1 DEF Export
<1>2. CASE p # Outside /\ ok
  BY <1>2 DEF Export
<1>3. CASE p # Outside /\ ~ok
  BY <1>3 DEF Export
<1>4. QED BY <1>1, <1>2, <1>3

\* It prints something if the place is not the one it knows of.
LEMMA ExportMoves ==
  ASSUME NEW x \in Places, NEW p \in Places, NEW ok, ok \/ p = Outside,
         Nothing \in Export(x, p, ok)
  PROVE  x = p
<1> DEFINE way == [from |-> x, to |-> p]
<1>0. way # Nothing
  BY DEF Change
<1>1. CASE p = Outside
  BY <1>0, <1>1 DEF Export
<1>2. CASE p # Outside
  <2>1. Export(x, p, ok) = {way} \cup (IF x = p THEN {Nothing} ELSE {})
    BY <1>2 DEF Export
  <2>2. CASE x # p
    BY <1>0, <2>1, <2>2
  <2>3. QED BY <2>2
<1>3. QED BY <1>1, <1>2

\* What a start prints and captures.
LEMMA StartPrints ==
  ASSUME Typed, NEW s \in Nus, Start(s)
  PROVE  \/ /\ cwd[s] = Outside /\ UNCHANGED <<fileVars, loadVars>>
            /\ \E c \in Exports(s) :
                 Emit(s, Outside, IF c = Nothing THEN Unannounced ELSE Outside, c)
         \/ /\ cwd[s] \in Dirs /\ UNCHANGED <<good, awaited>>
            /\ \E f \in {cwd[s], Unannounced} : Emit(s, cwd[s], f, Nothing)
            /\ \/ UNCHANGED <<env, json>>
               \/ \E c \in Exports(s) \ {Nothing} :
                    /\ env' = [env EXCEPT ![cwd[s]] = c]
                    /\ json' = [json EXCEPT ![cwd[s]] = TRUE]
<1>1. CASE StartOutside(s)
  BY <1>1 DEF StartOutside
<1>2. CASE StartInside(s)
  <2>1. CASE Background(s, cwd[s])
    BY <1>2, <2>1 DEF StartInside, Background
  <2>2. CASE Capture(s, cwd[s])
    BY <1>2, <2>2 DEF StartInside, Capture
  <2>3. QED BY <1>2, <2>1, <2>2 DEF StartInside
<1>3. QED BY <1>1, <1>2 DEF Start

LEMMA NextLeading == Typed /\ Leading /\ [Next]_vars => Leading'
<1> SUFFICES ASSUME Typed, Leading, [Next]_vars PROVE Leading'
  OBVIOUS
<1> USE DEF Typed
<1>0. ASSUME UNCHANGED <<own, printed, env>> PROVE Leading'
  BY <1>0 DEF Leading, Fits
<1>1. ASSUME NEW s \in Nus, Start(s) PROVE Leading'
  <2>0. cwd[s] \in Places /\ loaded[s] \in Places /\ UNCHANGED own
    BY <1>1 DEF Start, NuTyped
  <2>1. CASE cwd[s] = Outside /\ UNCHANGED env
             /\ \E c \in Exports(s) :
                  Emit(s, Outside, IF c = Nothing THEN Unannounced ELSE Outside, c)
    <3>1. PICK c \in Exports(s) :
            Emit(s, Outside, IF c = Nothing THEN Unannounced ELSE Outside, c)
      BY <2>1
    <3>2. c # Nothing => c.to = Outside
      BY <2>0, <2>1, ExportTo DEF Exports
    <3>3. \A t \in Nus : printed'[t].own = c \/ printed'[t].own = printed[t].own
      BY <3>1 DEF Emit, NuTyped
    <3>4. QED BY <2>0, <2>1, <3>2, <3>3 DEF Leading, Fits
  <2>2. ASSUME NEW f, Emit(s, cwd[s], f, Nothing)
        PROVE  \A t \in Nus : printed'[t].own = Nothing \/ printed'[t].own = printed[t].own
    BY <2>2 DEF Emit, NuTyped
  <2>3. CASE cwd[s] \in Dirs /\ (\E f \in {cwd[s], Unannounced} : Emit(s, cwd[s], f, Nothing))
             /\ UNCHANGED env
    BY <2>0, <2>2, <2>3 DEF Leading, Fits
  <2>4. ASSUME cwd[s] \in Dirs, \E f \in {cwd[s], Unannounced} : Emit(s, cwd[s], f, Nothing),
               NEW c \in Exports(s) \ {Nothing}, env' = [env EXCEPT ![cwd[s]] = c]
        PROVE  Leading'
    <3>1. c.to \in {cwd[s], Outside}
      BY <2>0, <2>4, ExportTo DEF Exports
    <3>2. \A d \in Dirs : env'[d] # Nothing => env'[d].to \in {d, Outside}
      BY <2>4, <3>1 DEF Leading, FileTyped
    <3>3. QED BY <2>0, <2>2, <2>4, <3>2 DEF Leading, Fits
  <2>5. QED BY <1>1, <2>1, <2>3, <2>4, StartPrints DEF fileVars
<1>2. ASSUME NEW s \in Nus, Apply(s) PROVE Leading'
  <2>1. \A t \in Nus : Fits(own'[t], Outside)
    BY <1>2 DEF Apply, NextOwn, Leading, Fits, NuTyped
  <2>2. \A t \in Nus : Fits(printed'[t].own, Outside)
    BY <1>2 DEF Apply, NoOutput, Leading, Fits, NuTyped
  <2>3. QED BY <1>2, <2>1, <2>2 DEF Apply, fileVars, Leading
<1>3. ASSUME NEW d \in Dirs, Publish(d) PROVE Leading'
  <2>1. PICK c \in Export(load[d], d, good[d]) : env' = env \/ env' = [env EXCEPT ![d] = c]
    BY <1>3 DEF Publish
  <2>2. c # Nothing => c.to \in {d, Outside}
    <3>1. load[d] \in Places /\ d \in Places
      BY <1>3, OutsideIsAPlace DEF Publish, LoadTyped
    <3>2. QED BY <3>1, ExportTo
  <2>3. \A e \in Dirs : env'[e] # Nothing => env'[e].to \in {e, Outside}
    BY <2>1, <2>2 DEF Leading, FileTyped
  <2>4. QED BY <1>3, <2>3 DEF Publish, nuVars, Leading, Fits
<1>4. ASSUME NEW s \in Nus, NEW p \in Places, Prompt(s) \/ ChangeDirectory(s, p) PROVE Leading'
  BY <1>0, <1>4 DEF Prompt, ChangeDirectory, fileVars
<1>5. ASSUME NEW d \in Dirs, Edit(d) \/ HandleForce(d) \/ OthersLeave(d) PROVE Leading'
  BY <1>0, <1>5 DEF Edit, HandleForce, OthersLeave, nuVars, fileVars
<1>6. ASSUME NEW x, NEW d, OtherStarts(x, d) PROVE Leading'
  BY <1>0, <1>6 DEF OtherStarts, nuVars, fileVars
<1>7. CASE UNCHANGED vars
  BY <1>0, <1>7 DEF vars, nuVars, fileVars
<1>8. QED
  BY <1>1, <1>2, <1>3, <1>4, <1>5, <1>6, <1>7, OutsideIsAPlace DEF Next

LEMMA LeadInvHolds == Spec => []LeadInv
<1>1. Init => Leading
  BY DEF Init, Leading, Fits, NoOutput
<1>2. Init => Typed
  BY InitInv DEF Inv, Typed
<1>3. LeadInv /\ [Next]_vars => LeadInv'
  BY NextTypes, NextLeading DEF LeadInv, Typed
<1>4. QED BY <1>1, <1>2, <1>3, PTL DEF Spec, LeadInv

\* All steps but those of its own hook leave nushell s as it is.
NuSame(s) ==
  /\ hook'[s] = hook[s] /\ seen'[s] = seen[s] /\ printed'[s] = printed[s]
  /\ envFile'[s] = envFile[s] /\ own'[s] = own[s] /\ loaded'[s] = loaded[s]

LEMMA NuStep ==
  ASSUME Typed, [Next]_vars, NEW s \in Nus
  PROVE  /\ Prompt(s) \/ Start(s) \/ Apply(s) \/ NuSame(s)
         /\ inMux'[s] = inMux[s]
<1> DEFINE Goal == (Prompt(s) \/ Start(s) \/ Apply(s) \/ NuSame(s)) /\ inMux' = inMux
<1> USE DEF Typed
<1>1. ASSUME NEW t \in Nus, Prompt(t) PROVE Goal
  BY <1>1 DEF Prompt, NuSame, NuTyped
<1>2. ASSUME NEW t \in Nus, Start(t) PROVE Goal
  <2>1. PICK p, f, c : Emit(t, p, f, c)
    BY <1>2, StartPrints
  <2>2. t # s => printed'[s] = printed[s]
    BY <2>1 DEF Emit, NuTyped
  <2>3. QED BY <1>2, <2>2 DEF Start, NuSame, NuTyped
<1>3. ASSUME NEW t \in Nus, Apply(t) PROVE Goal
  <2>1. CASE t = s
    BY <1>3, <2>1 DEF Apply
  <2>2. CASE t # s
    <3>1. loaded'[s] = loaded[s] /\ envFile'[s] = envFile[s] /\ own'[s] = own[s]
      BY <1>3, <2>2 DEF Apply, Merge, NuTyped
    <3>2. hook'[s] = hook[s] /\ seen'[s] = seen[s] /\ printed'[s] = printed[s]
      BY <1>3, <2>2 DEF Apply, NuTyped
    <3>3. QED BY <1>3, <3>1, <3>2 DEF Apply, NuSame
  <2>3. QED BY <2>1, <2>2
<1>4. ASSUME NEW t \in Nus, NEW p, ChangeDirectory(t, p) PROVE Goal
  BY <1>4 DEF ChangeDirectory, NuSame
<1>5. ASSUME NEW d, Edit(d) \/ Publish(d) \/ HandleForce(d) \/ OthersLeave(d) PROVE Goal
  BY <1>5 DEF Edit, Publish, HandleForce, OthersLeave, nuVars, NuSame
<1>6. ASSUME NEW x, NEW d, OtherStarts(x, d) PROVE Goal
  BY <1>6 DEF OtherStarts, nuVars, NuSame
<1>7. CASE UNCHANGED vars
  BY <1>7 DEF vars, nuVars, NuSame
<1>8. QED BY <1>1, <1>2, <1>3, <1>4, <1>5, <1>6, <1>7 DEF Next

AtStart(s) == hook[s] = "start"
AtEval(s) == hook[s] = "eval"

\* A hook that reads, and one that applies what it read.
LEMMA Prompts ==
  ASSUME Typed, NEW s \in Nus, Prompt(s)
  PROVE  /\ hook[s] = "idle" /\ hook'[s] = "start" /\ Readable(envFile[s])
         /\ seen'[s] = Content(envFile[s], own[s])
         /\ printed'[s] = printed[s] /\ envFile'[s] = envFile[s] /\ own'[s] = own[s]
         /\ loaded'[s] = loaded[s] /\ UNCHANGED <<fileVars, loadVars>>
BY DEF Prompt, Typed, NuTyped

LEMMA Applies ==
  ASSUME Typed, NEW s \in Nus, Apply(s)
  PROVE  /\ hook[s] = "eval" /\ hook'[s] = "idle" /\ seen'[s] = Nothing
         /\ UNCHANGED <<fileVars, loadVars>>
         /\ \/ /\ Readable(NextFile(s))
               /\ loaded'[s] = Knows(Knows(loaded[s], seen[s]), Content(NextFile(s), NextOwn(s)))
               /\ envFile'[s] = NextFile(s) /\ own'[s] = NextOwn(s)
            \/ /\ ~Readable(NextFile(s))
               /\ loaded'[s] = loaded[s] /\ envFile'[s] = envFile[s] /\ own'[s] = own[s]
<1>1. /\ hook[s] = "eval" /\ hook'[s] = "idle" /\ seen'[s] = Nothing
      /\ UNCHANGED <<fileVars, loadVars>>
  BY DEF Apply, Typed, NuTyped
<1>2. CASE Readable(NextFile(s))
  BY <1>1, <1>2 DEF Apply, Merge, Typed, NuTyped
<1>3. CASE ~Readable(NextFile(s))
  BY <1>1, <1>3 DEF Apply, Typed, NuTyped
<1>4. QED BY <1>1, <1>2, <1>3

LEMMA HookGoesOn ==
  ASSUME Typed, NEW s \in Nus, Start(s) \/ Apply(s)
  PROVE  /\ AtStart(s) => ~AtStart(s)'
         /\ AtEval(s) => ~AtEval(s)'
BY DEF Start, Apply, AtStart, AtEval, Typed, NuTyped

\* Scheduling.  That a hook which has begun is enabled is a hypothesis: it can be
\* read off the guards.
NeverBlocks(s) == hook[s] \in {"start", "eval"} => ENABLED <<Start(s) \/ Apply(s)>>_vars
NobodyBlocks == \A s \in Nus : NeverBlocks(s)

-----------------------------------------------------------------------------
(* Outside: the way back is in a file of its own.                          *)

OutAnswered(s) ==
  \/ printed[s].file = Outside /\ printed[s].own # Nothing
  \/ printed[s].file = Unannounced /\ loaded[s] = Outside
OutHere(s) == AtEval(s) => OutAnswered(s)
OutSettled(s) == OutHere(s) /\ loaded[s] = Outside /\ envFile[s] = Outside /\ Fits(seen[s], Outside)
OutAway(s) == OutSettled(s) \/ (OutHere(s) /\ loaded[s] # Outside)
OutChosen(s) == OutSettled(s) \/ (OutAway(s) /\ AtEval(s))

LEMMA OutStarts ==
  ASSUME Typed, NEW s \in Nus, Start(s), cwd[s] = Outside
  PROVE  /\ AtStart(s) /\ AtEval(s)' /\ OutAnswered(s)'
         /\ loaded'[s] = loaded[s] /\ envFile'[s] = envFile[s] /\ own'[s] = own[s]
         /\ seen'[s] = seen[s]
<1>1. PICK c \in Exports(s) :
        Emit(s, Outside, IF c = Nothing THEN Unannounced ELSE Outside, c)
  BY StartPrints, OutsideIsAPlace
<1>2. printed'[s].file = (IF c = Nothing THEN Unannounced ELSE Outside) /\ printed'[s].own = c
  BY <1>1 DEF Emit, Typed, NuTyped
<1>3. c = Nothing => loaded[s] = Outside
  <2>1. loaded[s] \in Places /\ Outside \in Places
    BY OutsideIsAPlace DEF Typed, NuTyped
  <2>2. QED BY <1>1, <2>1, ExportMoves DEF Exports
<1>4. AtStart(s) /\ AtEval(s)' /\ UNCHANGED <<loaded, envFile, own, seen>>
  BY DEF Start, AtStart, AtEval, Typed, NuTyped
<1>5. QED BY <1>2, <1>3, <1>4 DEF OutAnswered

LEMMA OutStep ==
  ASSUME LeadInv, [Next]_vars, NEW s \in Nus, StaysAlone(s, Outside)
  PROVE  /\ OutHere(s) => OutHere(s)'
         /\ OutSettled(s) => OutSettled(s)'
         /\ OutAway(s) => OutAway(s)'
         /\ OutAway(s) /\ AtStart(s) => AtStart(s)' \/ OutChosen(s)'
         /\ OutChosen(s) => OutChosen(s)'
         /\ OutChosen(s) /\ Apply(s) => OutSettled(s)'
<1> DEFINE Goal == /\ OutHere(s) => OutHere(s)'
                   /\ OutSettled(s) => OutSettled(s)'
                   /\ OutAway(s) => OutAway(s)'
                   /\ OutAway(s) /\ AtStart(s) => AtStart(s)' \/ OutChosen(s)'
                   /\ OutChosen(s) => OutChosen(s)'
                   /\ OutChosen(s) /\ Apply(s) => OutSettled(s)'
<1> SUFFICES Goal
  OBVIOUS
<1>0. Typed /\ Fits(own[s], Outside) /\ Fits(printed[s].own, Outside) /\ Outside \notin Dirs
  BY DEF LeadInv, Leading
<1>1. CASE Start(s)
  <2>1. /\ AtStart(s) /\ AtEval(s)' /\ OutAnswered(s)'
        /\ loaded'[s] = loaded[s] /\ envFile'[s] = envFile[s] /\ seen'[s] = seen[s]
    BY <1>0, <1>1, OutStarts DEF StaysAlone
  <2>2. ~AtEval(s) /\ ~Apply(s)
    BY <2>1 DEF AtStart, AtEval, Apply
  <2>3. QED BY <2>1, <2>2 DEF OutHere, OutSettled, OutAway, OutChosen, Fits
<1>2. CASE Apply(s)
  <2>1. /\ hook[s] = "eval" /\ hook'[s] = "idle" /\ seen'[s] = Nothing
        /\ \/ /\ Readable(NextFile(s))
              /\ loaded'[s] = Knows(Knows(loaded[s], seen[s]), Content(NextFile(s), NextOwn(s)))
              /\ envFile'[s] = NextFile(s)
           \/ ~Readable(NextFile(s))
    BY <1>0, <1>2, Applies
  <2>2. OutHere(s)' /\ AtEval(s) /\ ~AtStart(s)
    BY <2>1 DEF OutHere, AtEval, AtStart
  <2>3. OutHere(s) /\ loaded[s] # Outside => OutSettled(s)'
    <3> SUFFICES ASSUME OutHere(s), loaded[s] # Outside PROVE OutSettled(s)'
      OBVIOUS
    <3>1. printed[s].file = Outside /\ printed[s].own # Nothing
      BY <2>2 DEF OutHere, OutAnswered
    <3>2. NextFile(s) = Outside
      BY <3>1, OutsideIsAPlace DEF NextFile
    <3>3. NextOwn(s) = printed[s].own /\ Readable(NextFile(s))
      BY <1>0, <3>1, <3>2 DEF NextOwn, Readable
    <3>4. Content(NextFile(s), NextOwn(s)) = printed[s].own /\ printed[s].own.to = Outside
      BY <1>0, <3>1, <3>2, <3>3 DEF Content, Fits
    <3>5. loaded'[s] = Outside /\ envFile'[s] = Outside
      BY <2>1, <3>1, <3>2, <3>3, <3>4 DEF Knows
    <3>6. QED BY <2>1, <2>2, <3>5 DEF OutSettled, Fits
  <2>4. OutSettled(s) => OutSettled(s)'
    <3> SUFFICES ASSUME OutSettled(s) PROVE OutSettled(s)'
      OBVIOUS
    <3>1. printed[s].file \in {Outside, Unannounced} /\ envFile[s] = Outside
      BY <2>2 DEF OutSettled, OutHere, OutAnswered
    <3>2. NextFile(s) = Outside /\ Readable(NextFile(s))
      BY <1>0, <3>1, OutsideIsAPlace DEF NextFile, Readable
    <3>3. NextOwn(s) \in {printed[s].own, own[s]}
      BY <3>2 DEF NextOwn
    <3>4. Fits(Content(NextFile(s), NextOwn(s)), Outside)
      BY <1>0, <3>2, <3>3 DEF Content
    <3>5. loaded'[s] = Outside /\ envFile'[s] = Outside
      BY <2>1, <3>2, <3>4 DEF Knows, Fits, OutSettled
    <3>6. QED BY <2>1, <2>2, <3>5 DEF OutSettled, Fits
  <2>5. QED BY <2>2, <2>3, <2>4 DEF OutAway, OutChosen
<1>3. CASE Prompt(s)
  <2>1. /\ hook[s] = "idle" /\ hook'[s] = "start" /\ loaded'[s] = loaded[s]
        /\ envFile'[s] = envFile[s] /\ seen'[s] = Content(envFile[s], own[s])
    BY <1>0, <1>3, Prompts
  <2>2. OutHere(s)' /\ ~AtEval(s) /\ ~AtStart(s)
    BY <2>1 DEF OutHere, AtEval, AtStart
  <2>3. envFile[s] = Outside => Fits(seen'[s], Outside)
    BY <1>0, <2>1 DEF Content
  <2>4. ~Apply(s)
    BY <2>1 DEF Apply
  <2>5. QED BY <2>1, <2>2, <2>3, <2>4 DEF OutSettled, OutAway, OutChosen
<1>4. CASE NuSame(s) /\ ~Apply(s)
  BY <1>4 DEF NuSame, OutHere, OutSettled, OutAway, OutChosen, OutAnswered, AtEval, AtStart, Fits
<1>5. QED BY <1>0, <1>1, <1>2, <1>3, <1>4, NuStep

LEMMA OutConverges ==
  ASSUME NEW s \in Nus, NEW p \in Places \ Failing, p = Outside
  PROVE  /\ [][Next]_vars /\ []LeadInv /\ []NeverBlocks(s) /\ HookFairness(s)
         /\ <>[]StaysAlone(s, p) /\ []<>AtStart(s)
         => <>[](loaded[s] = p)
<1>1. LeadInv /\ [Next]_vars /\ StaysAlone(s, p)
      => /\ OutHere(s) => OutHere(s)'
         /\ OutSettled(s) => OutSettled(s)'
         /\ OutAway(s) => OutAway(s)'
         /\ OutAway(s) /\ AtStart(s) => AtStart(s)' \/ OutChosen(s)'
         /\ OutChosen(s) => OutChosen(s)'
  BY OutStep
<1>2. /\ AtStart(s) => OutHere(s)
      /\ OutHere(s) /\ ~(loaded[s] = p) => OutAway(s)
      /\ OutSettled(s) => loaded[s] = p
      /\ OutChosen(s) => OutSettled(s) \/ AtEval(s)
  BY DEF AtStart, AtEval, OutHere, OutAway, OutSettled, OutChosen
<1>3. LeadInv /\ [Next]_vars /\ StaysAlone(s, p) /\ <<Start(s) \/ Apply(s)>>_vars
      => /\ AtStart(s) => ~AtStart(s)'
         /\ OutChosen(s) => OutSettled(s)'
  <2> SUFFICES ASSUME LeadInv, [Next]_vars, StaysAlone(s, p), Start(s) \/ Apply(s)
               PROVE  /\ AtStart(s) => ~AtStart(s)'
                      /\ OutChosen(s) => OutSettled(s)'
    OBVIOUS
  <2>1. AtStart(s) => ~AtStart(s)'
    BY HookGoesOn DEF LeadInv
  <2>2. Start(s) => ~AtEval(s)
    BY DEF Start, AtEval
  <2>3. OutChosen(s) => OutSettled(s)'
    BY <2>2, OutStep DEF OutChosen
  <2>4. QED BY <2>1, <2>3
<1>4. NeverBlocks(s) /\ (AtStart(s) \/ AtEval(s)) => ENABLED <<Start(s) \/ Apply(s)>>_vars
  BY DEF NeverBlocks, AtStart, AtEval
<1> QED
  BY <1>1, <1>2, <1>3, <1>4, PTL DEF HookFairness

-----------------------------------------------------------------------------
(* Inside: once a load of d has ended, no STOP is on its way to one, and    *)
(* whatever is published is JSON (Mine).                                   *)

Mine(d) == d \notin forces /\ (load[d] # Idle => asJson[d])
Published(d) == env[d] # Nothing /\ env[d].to = d /\ json[d]

\* What a start in d announced, and what a hook has read in d (Here).
Answered(s, d) ==
  \/ printed[s].file = d /\ (inMux[s] \/ Published(d))
  \/ printed[s].file = Unannounced /\ loaded[s] = d /\ ~inMux[s]
Here(s, d) ==
  /\ AtEval(s) => Answered(s, d)
  /\ seen[s] # Nothing /\ seen[s].to = d => Published(d)

\* The directory to the steps of everybody.
FileKept(d) == env'[d] = env[d] /\ json'[d] = json[d]
Kept(d) ==
  /\ load'[d] = load[d] /\ asJson'[d] = asJson[d]
  /\ d \in forces' => d \in forces
\* A start in d, in a multiplexer and outside one.
LEMMA Starts ==
  ASSUME Typed, NEW s \in Nus, NEW d \in Dirs \ Failing, cwd[s] = d, good[d], Mine(d), Start(s)
  PROVE  /\ AtStart(s) /\ AtEval(s)' /\ Answered(s, d)' /\ Mine(d)'
         /\ loaded'[s] = loaded[s] /\ envFile'[s] = envFile[s] /\ seen'[s] = seen[s]
         /\ Published(d) => Published(d)'
         /\ IF inMux[s]
            THEN load'[d] = IF load[d] = Idle THEN loaded[s] ELSE load[d]
            ELSE load'[d] = load[d] /\ (loaded[s] # d => Published(d)')
<1> USE DEF Typed
<1>1. /\ AtStart(s) /\ AtEval(s)' /\ inMux'[s] = inMux[s]
      /\ loaded'[s] = loaded[s] /\ envFile'[s] = envFile[s] /\ seen'[s] = seen[s]
  BY DEF Start, AtStart, AtEval, NuTyped
<1>2. StartInside(s) /\ loaded[s] \in Places /\ d \in Places /\ d # Outside
  BY OutsideIsAPlace DEF Start, StartOutside, NuTyped
<1>3. d \notin forces'
  BY <1>2 DEF StartInside, StopOld, Mine
<1>4. ASSUME NEW f, NEW c, Emit(s, d, f, c) PROVE printed'[s].file = f
  BY <1>4 DEF Emit, NuTyped
<1>5. CASE inMux[s]
  <2>1. /\ Emit(s, d, d, Nothing) /\ UNCHANGED <<env, json>>
        /\ IF load[d] # Idle
           THEN UNCHANGED <<load, asJson>>
           ELSE /\ load' = [load EXCEPT ![d] = loaded[s]]
                /\ asJson' = [asJson EXCEPT ![d] = TRUE]
    BY <1>2, <1>5 DEF StartInside, Background
  <2>2. Answered(s, d)'
    BY <1>1, <1>4, <1>5, <2>1 DEF Answered
  <2>3. /\ load'[d] = IF load[d] = Idle THEN loaded[s] ELSE load[d]
        /\ load'[d] # Idle => asJson'[d]
    BY <2>1 DEF LoadTyped, Mine
  <2>4. Published(d) => Published(d)'
    BY <2>1 DEF Published
  <2>5. QED BY <1>1, <1>3, <1>5, <2>2, <2>3, <2>4 DEF Mine
<1>6. CASE ~inMux[s]
  <2>1. Capture(s, d) /\ UNCHANGED <<load, asJson>>
    BY <1>2, <1>6 DEF StartInside
  <2>2. CASE Emit(s, d, Unannounced, Nothing) /\ Nothing \in Exports(s) /\ UNCHANGED <<env, json>>
    <3>1. loaded[s] = d
      BY <1>2, <2>2, ExportMoves DEF Exports
    <3>2. Answered(s, d)'
      BY <1>1, <1>4, <1>6, <2>2, <3>1 DEF Answered
    <3>3. Published(d) => Published(d)'
      BY <2>2 DEF Published
    <3>4. QED BY <1>1, <1>3, <1>6, <2>1, <3>1, <3>2, <3>3 DEF Mine
  <2>3. ASSUME NEW c \in Exports(s) \ {Nothing}, Emit(s, d, d, Nothing),
               env' = [env EXCEPT ![d] = c], json' = [json EXCEPT ![d] = TRUE]
        PROVE  Published(d)' /\ Answered(s, d)'
    <3>1. c.to = d
      BY <1>2, <2>3, ExportTo DEF Exports
    <3>2. Published(d)'
      BY <2>3, <3>1 DEF Published, FileTyped
    <3>3. QED BY <1>4, <2>3, <3>2 DEF Answered
  <2>4. QED BY <1>1, <1>3, <1>6, <2>1, <2>2, <2>3 DEF Capture, Mine
<1>7. QED BY <1>5, <1>6

\* The steps of others leave d alone, or end its load.
LEMMA OthersKeep ==
  ASSUME Typed, [Next]_vars, NEW s \in Nus, NEW d \in Dirs, Mine(d), StaysAlone(s, d),
         StaysAlone(s, d)', ~Start(s)
  PROVE  /\ Mine(d)'
         /\ Published(d) => Published(d)'
         /\ \/ load'[d] = load[d]
            \/ load[d] # Idle /\ load'[d] = Idle /\ (load[d] # d => Published(d)')
<1> DEFINE Goal == /\ Mine(d)'
                   /\ Published(d) => Published(d)'
                   /\ \/ load'[d] = load[d]
                      \/ load[d] # Idle /\ load'[d] = Idle /\ (load[d] # d => Published(d)')
<1> SUFFICES Goal
  OBVIOUS
<1> USE DEF Typed
<1>0. good[d] /\ ~awaited[d] /\ ~awaited'[d] /\ d \notin forces /\ d # Outside /\ d \in Places
  BY OutsideIsAPlace DEF StaysAlone, Mine
<1>1. ASSUME FileKept(d), Kept(d) PROVE Goal
  BY <1>1 DEF FileKept, Kept, Mine, Published
<1>2. ASSUME NEW t \in Nus \ {s}, Start(t) PROVE Goal
  <2>1. cwd[t] # d /\ current[t] # d
    BY <1>0 DEF StaysAlone
  <2>2. FileKept(d)
    BY <1>2, <2>1 DEF Start, StartOutside, StartInside, Background, Capture, fileVars, FileKept,
       FileTyped
  <2>3. CASE StartOutside(t)
    BY <1>1, <2>2, <2>3 DEF StartOutside, loadVars, Kept
  <2>4. CASE StartInside(t)
    <3>1. load'[d] = load[d] /\ asJson'[d] = asJson[d]
      BY <2>1, <2>4 DEF StartInside, Background, LoadTyped
    <3>2. d \in forces' => d \in forces
      BY <2>1, <2>4 DEF StartInside, StopOld
    <3>3. QED BY <1>1, <2>2, <3>1, <3>2 DEF Kept
  <2>5. QED BY <1>2, <2>3, <2>4 DEF Start
<1>3. ASSUME UNCHANGED <<env, json, loadVars>> PROVE Goal
  BY <1>1, <1>3 DEF loadVars, FileKept, Kept
<1>4. ASSUME NEW e \in Dirs, End(e), e # d, FileKept(d) PROVE Goal
  BY <1>1, <1>4 DEF End, Kept, LoadTyped
<1>5. ASSUME NEW e \in Dirs, Publish(e) PROVE Goal
  <2>1. CASE e # d
    <3>1. FileKept(d)
      BY <1>5, <2>1 DEF Publish, FileKept, FileTyped
    <3>2. QED BY <1>4, <1>5, <2>1, <3>1 DEF Publish
  <2>2. CASE e = d
    <3>1. load[d] # Idle /\ load[d] \in Places /\ asJson[d] /\ load'[d] = Idle /\ d \notin forces'
      BY <1>0, <1>5, <2>2 DEF Publish, End, LoadTyped, Mine
    <3>2. PICK c \in Export(load[d], d, good[d]) :
            IF c = Nothing /\ good[d]
            THEN UNCHANGED <<env, json>>
            ELSE env' = [env EXCEPT ![d] = c] /\ json' = [json EXCEPT ![d] = c = Nothing \/ asJson[d]]
      BY <1>5, <2>2 DEF Publish
    <3>3. CASE c = Nothing
      <4>1. load[d] = d /\ UNCHANGED <<env, json>>
        BY <1>0, <3>1, <3>2, <3>3, ExportMoves
      <4>2. QED BY <3>1, <4>1 DEF Mine, Published
    <3>4. CASE c # Nothing
      <4>1. c.to = d
        <5>1. c \in Export(load[d], d, good[d]) /\ load[d] \in Places /\ d \in Places /\ good[d]
          BY <1>0, <3>1, <3>2
        <5>2. QED BY <3>4, <5>1, ExportTo
      <4>2. env'[d] = c /\ json'[d]
        BY <3>1, <3>2, <3>4 DEF FileTyped
      <4>3. QED BY <3>1, <3>4, <4>1, <4>2 DEF Mine, Published
    <3>5. QED BY <3>3, <3>4
  <2>3. QED BY <2>1, <2>2
<1>6. ASSUME NEW e \in Dirs, HandleForce(e) \/ OthersLeave(e) PROVE Goal
  <2>1. e # d /\ End(e) /\ FileKept(d)
    BY <1>0, <1>6 DEF HandleForce, OthersLeave, fileVars, FileKept
  <2>2. QED BY <1>4, <2>1
<1>7. ASSUME NEW x, NEW e \in Dirs, OtherStarts(x, e) PROVE Goal
  <2>1. e # d
    BY <1>0, <1>7 DEF OtherStarts, LoadTyped
  <2>2. QED BY <1>1, <1>7, <2>1 DEF OtherStarts, fileVars, FileKept, Kept, LoadTyped
<1>8. ASSUME NEW t \in Nus, NEW p, Prompt(t) \/ Apply(t) \/ ChangeDirectory(t, p) PROVE Goal
  BY <1>3, <1>8 DEF Prompt, Apply, ChangeDirectory, fileVars
<1>9. ASSUME NEW e \in Dirs, Edit(e) PROVE Goal
  BY <1>3, <1>9 DEF Edit
<1>10. CASE UNCHANGED vars
  BY <1>3, <1>10 DEF vars, fileVars
<1>11. QED
  BY <1>2, <1>5, <1>6, <1>7, <1>8, <1>9, <1>10 DEF Next

\* From there to the environment.
Settled(s, d) == loaded[s] = d /\ envFile[s] = d /\ Published(d) /\ Fits(seen[s], d)
Away(s, d) == Settled(s, d) \/ loaded[s] # d
Underway(s, d) == Settled(s, d) \/ (loaded[s] # d /\ (Published(d) \/ load[d] # d))
Loading(s, d) == Settled(s, d) \/ (loaded[s] # d /\ (Published(d) \/ load[d] \notin {d, Idle}))
Ready(s, d) == Settled(s, d) \/ (loaded[s] # d /\ Published(d))
Chosen(s, d) == Settled(s, d) \/ (Ready(s, d) /\ AtEval(s))

\* The hook applies what was published, and nothing else makes it believe it did.
LEMMA DirApplies ==
  ASSUME LeadInv, NEW s \in Nus, NEW d \in Dirs, Here(s, d), Apply(s)
  PROVE  /\ AtEval(s) /\ ~AtEval(s)' /\ ~AtStart(s)' /\ Here(s, d)' /\ UNCHANGED <<fileVars, loadVars>>
         /\ Published(d) /\ (loaded[s] # d \/ Settled(s, d)) => Settled(s, d)'
         /\ ~Published(d) /\ loaded[s] # d => loaded'[s] # d
<1>0. Typed /\ Leading /\ d # Outside
  BY OutsideIsAPlace DEF LeadInv
<1>1. /\ hook[s] = "eval" /\ hook'[s] = "idle" /\ seen'[s] = Nothing
      /\ UNCHANGED <<fileVars, loadVars>>
      /\ \/ /\ Readable(NextFile(s))
            /\ loaded'[s] = Knows(Knows(loaded[s], seen[s]), Content(NextFile(s), NextOwn(s)))
            /\ envFile'[s] = NextFile(s)
         \/ ~Readable(NextFile(s)) /\ loaded'[s] = loaded[s]
  BY <1>0, Applies
<1>2. AtEval(s) /\ ~AtEval(s)' /\ ~AtStart(s)' /\ Here(s, d)' /\ Answered(s, d)
  BY <1>1 DEF AtEval, AtStart, Here
<1>3. UNCHANGED <<env, json>>
  BY <1>1 DEF fileVars
<1>4. loaded[s] # d \/ envFile[s] = d => NextFile(s) = d
  BY <1>2, OutsideIsAPlace DEF Answered, NextFile
<1>5. NextFile(s) = d => Content(NextFile(s), NextOwn(s)) = env[d]
  BY <1>0 DEF Content
<1>6. ASSUME Published(d), loaded[s] # d \/ Settled(s, d) PROVE Settled(s, d)'
  <2>1. NextFile(s) = d
    BY <1>4, <1>6 DEF Settled
  <2>2. Readable(NextFile(s))
    BY <1>6, <2>1 DEF Readable, Published
  <2>3. loaded'[s] = d /\ envFile'[s] = d
    BY <1>1, <1>5, <1>6, <2>1, <2>2 DEF Knows, Published
  <2>4. QED BY <1>1, <1>3, <1>6, <2>3 DEF Settled, Published, Fits
<1>7. ASSUME ~Published(d), loaded[s] # d PROVE loaded'[s] # d
  <2>1. NextFile(s) = d
    BY <1>4, <1>7
  <2>2. CASE ~Readable(NextFile(s))
    BY <1>1, <1>7, <2>2
  <2>3. CASE Readable(NextFile(s))
    <3>1. loaded'[s] = Knows(Knows(loaded[s], seen[s]), env[d])
      BY <1>1, <1>5, <2>1, <2>3
    <3>2. env[d] # Nothing => env[d].to = Outside
      BY <1>0, <1>7, <2>1, <2>3 DEF Leading, Readable, Published
    <3>3. Knows(loaded[s], seen[s]) # d
      BY <1>7 DEF Here, Knows
    <3>4. QED BY <1>0, <3>1, <3>2, <3>3 DEF Knows
  <2>4. QED BY <2>2, <2>3
<1>8. QED BY <1>1, <1>2, <1>6, <1>7

\* What a hook reads in d is of d only if it was published for it.
LEMMA DirReads ==
  ASSUME LeadInv, NEW s \in Nus, NEW d \in Dirs, Prompt(s)
  PROVE  /\ ~AtStart(s) /\ ~AtEval(s) /\ ~AtEval(s)' /\ Here(s, d)' /\ UNCHANGED <<fileVars, loadVars>>
         /\ loaded'[s] = loaded[s]
         /\ Settled(s, d) => Settled(s, d)'
<1>0. Typed /\ Leading /\ d # Outside /\ envFile[s] \in Places
  BY OutsideIsAPlace DEF LeadInv, Typed, NuTyped
<1>1. /\ hook[s] = "idle" /\ hook'[s] = "start" /\ Readable(envFile[s])
      /\ seen'[s] = Content(envFile[s], own[s]) /\ envFile'[s] = envFile[s]
      /\ loaded'[s] = loaded[s] /\ UNCHANGED <<fileVars, loadVars>>
  BY <1>0, Prompts
<1>2. UNCHANGED <<env, json>>
  BY <1>1 DEF fileVars
<1>3. seen'[s] # Nothing /\ seen'[s].to = d => Published(d)'
  <2>1. CASE envFile[s] = Outside
    BY <1>0, <1>1, <2>1 DEF Content, Leading, Fits
  <2>2. CASE envFile[s] = d
    BY <1>0, <1>1, <1>2, <2>2 DEF Content, Readable, Published
  <2>3. CASE envFile[s] \in Dirs \ {d}
    BY <1>0, <1>1, <2>3 DEF Content, Leading
  <2>4. QED BY <1>0, <2>1, <2>2, <2>3 DEF Places
<1>4. ~AtStart(s) /\ ~AtEval(s) /\ ~AtEval(s)' /\ Here(s, d)'
  BY <1>1, <1>3 DEF AtStart, AtEval, Here
<1>5. Settled(s, d) => Settled(s, d)'
  BY <1>0, <1>1, <1>2 DEF Settled, Published, Content, Fits
<1>6. QED BY <1>1, <1>4, <1>5

LEMMA DirStep ==
  ASSUME LeadInv, [Next]_vars, NEW s \in Nus, NEW d \in Dirs \ Failing, Mine(d),
         StaysAlone(s, d), StaysAlone(s, d)'
  PROVE  /\ Mine(d)'
         /\ AtEval(s) => AtEval(s)' \/ (seen[s] = Nothing /\ ~AtEval(s))'
         /\ Here(s, d) =>
              /\ Here(s, d)'
              /\ Settled(s, d) => Settled(s, d)'
              /\ Away(s, d) => Away(s, d)'
              /\ Underway(s, d) => Underway(s, d)'
              /\ Underway(s, d) /\ AtStart(s) => AtStart(s)' \/ Loading(s, d)'
              /\ Loading(s, d) => Loading(s, d)'
              /\ Ready(s, d) => Ready(s, d)'
              /\ Ready(s, d) /\ AtStart(s) => AtStart(s)' \/ Chosen(s, d)'
              /\ Chosen(s, d) => Chosen(s, d)'
              /\ Chosen(s, d) /\ Apply(s) => Settled(s, d)'
<1> DEFINE Stages == /\ Here(s, d)'
                     /\ Settled(s, d) => Settled(s, d)'
                     /\ Away(s, d) => Away(s, d)'
                     /\ Underway(s, d) => Underway(s, d)'
                     /\ Underway(s, d) /\ AtStart(s) => AtStart(s)' \/ Loading(s, d)'
                     /\ Loading(s, d) => Loading(s, d)'
                     /\ Ready(s, d) => Ready(s, d)'
                     /\ Ready(s, d) /\ AtStart(s) => AtStart(s)' \/ Chosen(s, d)'
                     /\ Chosen(s, d) => Chosen(s, d)'
                     /\ Chosen(s, d) /\ Apply(s) => Settled(s, d)'
           Goal == /\ Mine(d)'
                   /\ AtEval(s) => AtEval(s)' \/ (seen'[s] = Nothing /\ ~AtEval(s)')
                   /\ Here(s, d) => Stages
<1> SUFFICES Goal
  OBVIOUS
<1>0. /\ Typed /\ cwd[s] = d /\ good[d] /\ d # Idle /\ loaded[s] # Idle
      /\ inMux'[s] = inMux[s]
  BY OutsideIsAPlace, NuStep DEF LeadInv, StaysAlone, Typed, NuTyped
<1> USE DEF Away, Underway, Loading, Ready, Chosen
<1>1. CASE Start(s)
  <2>1. /\ AtStart(s) /\ AtEval(s)' /\ Answered(s, d)' /\ Mine(d)'
        /\ loaded'[s] = loaded[s] /\ envFile'[s] = envFile[s] /\ seen'[s] = seen[s]
        /\ Published(d) => Published(d)'
        /\ IF inMux[s]
           THEN load'[d] = IF load[d] = Idle THEN loaded[s] ELSE load[d]
           ELSE load'[d] = load[d] /\ (loaded[s] # d => Published(d)')
    BY <1>0, <1>1, Starts
  <2>2. ~AtEval(s) /\ ~Apply(s)
    BY <2>1 DEF AtStart, AtEval, Apply
  <2>3. Here(s, d) => Here(s, d)'
    BY <2>1 DEF Here
  <2>4. Settled(s, d) => Settled(s, d)'
    BY <2>1 DEF Settled, Fits
  <2>5. QED BY <1>0, <2>1, <2>2, <2>3, <2>4
<1>2. CASE Apply(s)
  <2>1. Mine(d)' /\ (Published(d) => Published(d)') /\ ~Start(s)
    <3>1. ~Start(s)
      BY <1>2 DEF Apply, Start
    <3>2. QED BY <1>0, <3>1, OthersKeep
  <2>2. AtEval(s) /\ seen'[s] = Nothing /\ ~AtEval(s)'
    BY <1>0, <1>2, Applies DEF AtEval
  <2>3. ASSUME Here(s, d) PROVE Stages
    <3>1. /\ ~AtStart(s)' /\ Here(s, d)' /\ UNCHANGED <<fileVars, loadVars>>
          /\ Published(d) /\ (loaded[s] # d \/ Settled(s, d)) => Settled(s, d)'
          /\ ~Published(d) /\ loaded[s] # d => loaded'[s] # d
      BY <1>2, <2>3, DirApplies
    <3>2. ~AtStart(s) /\ load' = load /\ (Settled(s, d) => Published(d))
      BY <2>2, <3>1 DEF AtStart, AtEval, loadVars, Settled
    <3>3. QED BY <2>1, <2>2, <3>1, <3>2
  <2>4. QED BY <2>1, <2>2, <2>3
<1>3. CASE Prompt(s)
  <2>1. /\ ~AtStart(s) /\ ~AtEval(s) /\ ~AtEval(s)' /\ Here(s, d)'
        /\ UNCHANGED <<fileVars, loadVars>>
        /\ loaded'[s] = loaded[s]
        /\ Settled(s, d) => Settled(s, d)'
    BY <1>3, DirReads
  <2>2. UNCHANGED <<env, json, load, asJson, forces>>
    BY <2>1 DEF fileVars, loadVars
  <2>3. ~Apply(s)
    BY <1>3 DEF Prompt, Apply
  <2>4. QED BY <2>1, <2>2, <2>3 DEF Mine, Published
<1>4. CASE NuSame(s) /\ ~Start(s) /\ ~Apply(s)
  <2>1. /\ Mine(d)'
        /\ Published(d) => Published(d)'
        /\ \/ load'[d] = load[d]
           \/ load[d] # Idle /\ load'[d] = Idle /\ (load[d] # d => Published(d)')
    BY <1>0, <1>4, OthersKeep
  <2>2. /\ loaded'[s] = loaded[s] /\ envFile'[s] = envFile[s] /\ seen'[s] = seen[s]
        /\ AtStart(s)' = AtStart(s) /\ AtEval(s)' = AtEval(s) /\ printed'[s] = printed[s]
    BY <1>4 DEF NuSame, AtStart, AtEval
  <2>3. Answered(s, d) => Answered(s, d)'
    BY <1>0, <2>1, <2>2 DEF Answered
  <2>4. Here(s, d) => Here(s, d)'
    BY <2>1, <2>2, <2>3 DEF Here
  <2>5. Settled(s, d) => Settled(s, d)'
    BY <2>1, <2>2 DEF Settled, Fits
  <2>6. QED BY <1>4, <2>1, <2>2, <2>4, <2>5
<1>5. QED BY <1>0, <1>1, <1>2, <1>3, <1>4, NuStep

LEMMA DirConverges ==
  ASSUME NEW s \in Nus, NEW p \in Places \ Failing, p \in Dirs
  PROVE  /\ [][Next]_vars /\ []LeadInv /\ []NeverBlocks(s) /\ HookFairness(s)
         /\ <>[]StaysAlone(s, p) /\ []<>AtStart(s) /\ []<>(load[p] = Idle)
         => <>[](loaded[s] = p)
<1> DEFINE Stays == StaysAlone(s, p)
           Ended == load[p] = Idle
           Applied == seen[s] = Nothing /\ ~AtEval(s)
           Base == Mine(p) /\ Here(s, p)
           Go == Start(s) \/ Apply(s)
<1>1. LeadInv /\ Ended => Mine(p)
  BY DEF LeadInv, Typed, LoadTyped, Mine
<1>2. LeadInv /\ [Next]_vars /\ Stays /\ Stays' /\ Mine(p)
      => /\ Mine(p)'
         /\ AtEval(s) => AtEval(s)' \/ Applied'
         /\ Base => Base'
  BY DirStep
<1>3. Applied /\ Mine(p) => Base
  BY DEF Here
<1>4. LeadInv /\ [Next]_vars /\ Stays /\ Stays' /\ Base
      => /\ Settled(s, p) => Settled(s, p)'
         /\ Away(s, p) => Away(s, p)'
         /\ Underway(s, p) => Underway(s, p)'
         /\ Underway(s, p) /\ AtStart(s) => AtStart(s)' \/ Loading(s, p)'
         /\ Loading(s, p) => Loading(s, p)'
         /\ Ready(s, p) => Ready(s, p)'
         /\ Ready(s, p) /\ AtStart(s) => AtStart(s)' \/ Chosen(s, p)'
         /\ Chosen(s, p) => Chosen(s, p)'
  BY DirStep
<1>5. LeadInv /\ <<Go>>_vars
      => /\ AtStart(s) => ~AtStart(s)'
         /\ AtEval(s) => ~AtEval(s)'
  BY HookGoesOn DEF LeadInv
<1>6. LeadInv /\ [Next]_vars /\ Stays /\ Stays' /\ Base /\ <<Go>>_vars
      => (Chosen(s, p) => Settled(s, p)')
  <2> SUFFICES ASSUME LeadInv, [Next]_vars, Stays, Stays', Base, Go, Chosen(s, p)
               PROVE  Settled(s, p)'
    OBVIOUS
  <2>1. Start(s) => ~AtEval(s)
    BY DEF Start, AtEval
  <2>2. QED BY <2>1, DirStep DEF Chosen
<1>7. NeverBlocks(s) /\ (AtStart(s) \/ AtEval(s)) => ENABLED <<Go>>_vars
  BY DEF NeverBlocks, AtStart, AtEval
<1>8. /\ ~(loaded[s] = p) => Away(s, p)
      /\ Away(s, p) /\ Ended => Underway(s, p)
      /\ Loading(s, p) /\ Ended => Ready(s, p)
      /\ Chosen(s, p) => Settled(s, p) \/ AtEval(s)
      /\ Settled(s, p) => loaded[s] = p
  BY OutsideIsAPlace DEF Away, Underway, Loading, Ready, Chosen, Settled
<1>9. LeadInv /\ [Next]_vars /\ AtStart(s) => AtStart(s)' \/ AtEval(s)'
  <2> SUFFICES ASSUME LeadInv, [Next]_vars, AtStart(s) PROVE AtStart(s)' \/ AtEval(s)'
    OBVIOUS
  <2>1. CASE Start(s)
    BY <2>1 DEF Start, AtEval, LeadInv, Typed, NuTyped
  <2>2. CASE NuSame(s)
    BY <2>2 DEF NuSame, AtStart
  <2>3. QED BY <2>1, <2>2, NuStep DEF LeadInv, AtStart, Prompt, Apply
<1> HIDE DEF Stays, Ended, Applied, Base, Go
<1>10. /\ [][Next]_vars /\ []LeadInv /\ []NeverBlocks(s) /\ WF_vars(Go)
       /\ <>[]Stays /\ []<>AtStart(s) /\ []<>Ended
       => <>[]Base
  <2>1. /\ [][Next]_vars /\ []LeadInv /\ <>[]Stays /\ []<>Ended => <>[]Mine(p)
    BY <1>1, <1>2, PTL
  <2>2. /\ [][Next]_vars /\ []LeadInv /\ []NeverBlocks(s) /\ WF_vars(Go) /\ []<>AtStart(s)
        => []<>AtEval(s)
    BY <1>5, <1>7, <1>9, PTL
  <2>3. QED BY <1>2, <1>3, <1>5, <1>7, <2>1, <2>2, PTL
<1> QED
  BY <1>4, <1>5, <1>6, <1>7, <1>8, <1>10, PTL DEF Stays, Ended, Go, HookFairness

\* A nushell that stays in a place alone and whose hook keeps getting as far as
\* start ends up with what belongs there and keeps it, although nobody tells it
\* when a load is over: whatever was read, published or under way when it came, in
\* a multiplexer or not, for any number of nushells, directories and visitors.
THEOREM ConvergesHolds == FairSpec /\ []NobodyBlocks => Converges
<1>1. ASSUME NEW s \in Nus, NEW p \in Places \ Failing
      PROVE  FairSpec /\ []NobodyBlocks =>
               (/\ <>[]StaysAlone(s, p)
                /\ []<>(hook[s] = "start")
                /\ p \in Dirs => []<>(load[p] = Idle)
                => <>[](loaded[s] = p))
  <2>1. NobodyBlocks => NeverBlocks(s)
    BY DEF NobodyBlocks
  <2>2. FairSpec => Spec /\ HookFairness(s)
    BY DEF FairSpec
  <2>3. hook[s] = "start" => AtStart(s)
    BY DEF AtStart
  <2>4. CASE p \in Dirs
    <3>1. /\ [][Next]_vars /\ []LeadInv /\ []NeverBlocks(s) /\ HookFairness(s)
          /\ <>[]StaysAlone(s, p) /\ []<>AtStart(s) /\ []<>(load[p] = Idle)
          => <>[](loaded[s] = p)
      BY <2>4, DirConverges
    <3>2. QED
      BY <2>1, <2>2, <2>3, <2>4, <3>1, LeadInvHolds, PTL DEF Spec
  <2>5. CASE p = Outside
    <3>1. /\ [][Next]_vars /\ []LeadInv /\ []NeverBlocks(s) /\ HookFairness(s)
          /\ <>[]StaysAlone(s, p) /\ []<>AtStart(s)
          => <>[](loaded[s] = p)
      BY <2>5, OutConverges
    <3>2. QED
      BY <2>1, <2>2, <2>3, <3>1, LeadInvHolds, PTL DEF Spec
  <2>6. QED BY <2>4, <2>5 DEF Places
<1> QED
  BY <1>1 DEF Converges
=============================================================================
