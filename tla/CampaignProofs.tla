--------------------------- MODULE CampaignProofs ---------------------------
(***************************************************************************)
(* Theorems about Campaign for any groups and jobs, any outcomes of the    *)
(* scripts and any number of faults and edits: what the driver's files and *)
(* its memory promise about the scripts that were started, whatever dies   *)
(* and however often it is resumed.                                        *)
(***************************************************************************)
EXTENDS Campaign, WellFoundedInduction, TLAPS

PCs == {"off", "by_hand", "mkdir_runs", "mkdir_results", "save_first", "next",
        "save_running", "launch", "wait", "save_runs", "save_results",
        "finish_runs", "finish_results"}
Active     == cam.pc \notin {"off", "by_hand"}
Unmeasured == cam.pc \in {"mkdir_runs", "mkdir_results", "save_first"}
Measuring  == cam.pc \in {"save_running", "launch", "wait"}

IsProgress(p) == p = [n \in GroupNames |-> p[n]]
IsDict(s) == /\ s = [progress |-> s.progress, tree |-> s.tree, finished |-> s.finished,
                     valid |-> s.valid, qualified |-> s.qualified]
             /\ IsProgress(s.progress)

\* What any campaign.json, however old, says is true.
Sound(s) ==
    /\ IsDict(s)
    /\ \A n \in GroupNames :
         /\ s.progress[n] = Absent \/ s.progress[n].status \in {"running", "complete"}
         /\ s.progress[n].status = "complete" => launches[n] = 1
    /\ s.finished => \A n \in GroupNames : s.progress[n].status = "complete"

\* Nothing has been started that this state does not know of.
Current(s) ==
    \A n \in GroupNames :
        launches[n] > 0 => s.progress[n] # Absent /\ usedHarness[n] = s.tree.harness

\* A later state keeps an earlier one's verdicts.
Behind(a, b) ==
    /\ a.finished => b.finished
    /\ \A n \in GroupNames :
         a.progress[n].status = "complete" => b.progress[n].status = "complete"
Kept(a, b) ==
    \A n \in GroupNames :
        a.progress[n].status = "complete" => b.progress[n] = a.progress[n]

Shapes ==
    /\ launches \in [GroupNames -> {0, 1}]
    /\ usedHarness = [n \in GroupNames |-> usedHarness[n]]
    /\ cam = [pc |-> cam.pc, state |-> cam.state, group |-> cam.group]
    /\ disk = [runs |-> disk.runs, results |-> disk.results]
    /\ cam.pc \in PCs

NothingYet ==
    /\ disk.runs = NoFile /\ disk.results = NoFile
    /\ \A n \in GroupNames : launches[n] = 0

Beginning ==
    /\ dirs = {} \/ Unmeasured => NothingYet
    /\ cam.pc \notin {"off", "by_hand", "mkdir_runs"} => dirs # {}

Files ==
    /\ isState(disk.runs) => Sound(disk.runs) /\ Current(disk.runs)
    /\ isState(disk.results) => Sound(disk.results)
    /\ isState(disk.results) /\ isState(disk.runs) => Behind(disk.results, disk.runs)

Memory ==
    Active =>
        /\ Sound(cam.state) /\ Current(cam.state) /\ cam.state.tree = tree
        /\ isState(disk.runs) => Kept(disk.runs, cam.state)
        /\ isState(disk.results) => Behind(disk.results, cam.state)
        /\ ~Measuring => \A n \in GroupNames : cam.state.progress[n].status # "running"

Group ==
    Measuring =>
        /\ cam.group \in DOMAIN GROUPS
        /\ cam.state.progress[spec.name] = Running
        /\ \A n \in GroupNames \ {spec.name} : cam.state.progress[n].status # "running"
        /\ launches[spec.name] = IF cam.pc = "wait" THEN 1 ELSE 0

Saved == cam.pc \in {"launch", "save_results", "finish_results"} => disk.runs = cam.state

CampaignInv == Shapes /\ Beginning /\ Files /\ Memory /\ Group /\ Saved

-----------------------------------------------------------------------------
\* Every group's name is a group name.
LEMMA NameOfGroup ==
    ASSUME NEW i \in DOMAIN GROUPS
    PROVE  GROUPS[i].name \in GroupNames
  BY DEF GroupNames

\* Changing one entry of the progress changes nothing else of a state dict.
LEMMA EntryUpdate ==
    ASSUME NEW s, IsDict(s), NEW g \in GroupNames, NEW e,
           NEW t, t = [s EXCEPT !.progress[g] = e]
    PROVE  /\ IsDict(t)
           /\ t.progress[g] = e
           /\ \A n \in GroupNames \ {g} : t.progress[n] = s.progress[n]
           /\ t.tree = s.tree /\ t.finished = s.finished
  <1> DEFINE p == [s.progress EXCEPT ![g] = e]
  <1>1. /\ p = [n \in GroupNames |-> p[n]]
        /\ p[g] = e
        /\ \A n \in GroupNames \ {g} : p[n] = s.progress[n]
    BY DEF IsDict, IsProgress
  <1>2. t = [progress |-> p, tree |-> s.tree, finished |-> s.finished,
             valid |-> s.valid, qualified |-> s.qualified]
    BY DEF IsDict
  <1> QED
    BY <1>1, <1>2 DEF IsDict, IsProgress

\* The entries are told apart by their status.
LEMMA EntriesDiffer ==
    /\ Absent.status = "absent" /\ Running.status = "running"
    /\ Absent # Running
    /\ \A n, code, summary : conclusion(n, code, summary).status = "complete"
  BY DEF Absent, Running, entry, conclusion

\* Files that are not states.
LEMMA NotStates == ~isState(NoFile) /\ ~isState(Torn)
  BY DEF isState

-----------------------------------------------------------------------------
\* The invariant holds in the beginning.
LEMMA InvInit == Init => CampaignInv
  <1> SUFFICES ASSUME Init PROVE CampaignInv
    OBVIOUS
  <1>1. cam.pc = "off" /\ cam = [pc |-> "off", state |-> NoFile, group |-> 0]
    BY DEF Init, NoDriver
  <1>2. disk.runs = NoFile /\ disk.results = NoFile
    BY DEF Init
  <1>3. Shapes
    BY <1>1 DEF Init, Shapes, PCs
  <1>4. Beginning
    BY <1>1, <1>2 DEF Init, Beginning, NothingYet, Unmeasured
  <1>5. Files /\ Memory /\ Group /\ Saved
    BY <1>1, <1>2, NotStates DEF Files, Memory, Group, Saved, Active, Measuring
  <1> QED
    BY <1>3, <1>4, <1>5 DEF CampaignInv

\* A step that leaves the driver, its files and the histories alone keeps it; the
\* tree is edited only while there is no driver.
LEMMA InvElsewhere ==
    ASSUME CampaignInv, UNCHANGED <<dirs, disk, cam, launches, usedHarness>>,
           tree' = tree \/ Off
    PROVE  CampaignInv'
  <1>1. Shapes' /\ Beginning' /\ Files' /\ Group' /\ Saved'
    BY DEF CampaignInv, Shapes, Beginning, NothingYet, Unmeasured, Files, Group, Saved,
           Sound, Current, Behind, Measuring, spec, isState, IsDict, IsProgress
  <1>2. Memory'
    BY DEF CampaignInv, Memory, Active, Measuring, Off, Sound, Current, Behind, Kept,
           isState, IsDict, IsProgress
  <1> QED
    BY <1>1, <1>2 DEF CampaignInv

-----------------------------------------------------------------------------
\* One lemma for each thing the driver does.

\* What goto leaves of the driver.
LEMMA Goto ==
    ASSUME Shapes, NEW p, cam' = [cam EXCEPT !.pc = p]
    PROVE  cam' = [pc |-> p, state |-> cam.state, group |-> cam.group]
  BY DEF Shapes

\* The campaign starts.
LEMMA InvStart == ASSUME CampaignInv, Start PROVE CampaignInv'
  <1> DEFINE s == first_state
  <1>1. /\ cam'.pc = "mkdir_runs" /\ cam'.state = s
        /\ cam' = [pc |-> cam'.pc, state |-> cam'.state, group |-> cam'.group]
        /\ UNCHANGED <<dirs, disk, tree, launches, usedHarness>>
    BY DEF Start
  <1>2. NothingYet
    BY DEF CampaignInv, Beginning, Start
  <1>3. /\ IsDict(s)
        /\ s.tree = tree /\ s.finished = FALSE
        /\ \A n \in GroupNames : s.progress[n] = Absent
    BY DEF first_state, IsDict, IsProgress
  <1>4. Shapes' /\ Beginning' /\ Group' /\ Saved'
    BY <1>1, <1>2 DEF CampaignInv, Shapes, PCs, Beginning, NothingYet, Unmeasured, Group,
                      Measuring, Saved
  <1>5. Files'
    BY <1>1, <1>2, NotStates DEF Files, NothingYet, isState
  <1>6. Sound(s)' /\ Current(s)'
    BY <1>1, <1>2, <1>3, EntriesDiffer
    DEF Sound, Current, NothingYet, IsDict, IsProgress, first_state
  <1>7. Memory'
    BY <1>1, <1>2, <1>3, <1>6, NotStates, EntriesDiffer
    DEF Memory, NothingYet, isState, Sound, Current, first_state, IsDict, IsProgress
  <1> QED
    BY <1>4, <1>5, <1>7 DEF CampaignInv

\* It is resumed after a crash.
LEMMA InvResume == ASSUME CampaignInv, Resume PROVE CampaignInv'
  <1>1. /\ cam'.pc = "next" /\ cam'.state = disk.runs
        /\ cam' = [pc |-> cam'.pc, state |-> cam'.state, group |-> cam'.group]
        /\ UNCHANGED <<dirs, disk, tree, launches, usedHarness>>
    BY DEF Resume
  <1>2. /\ isState(disk.runs) /\ disk.runs.tree = tree
        /\ \A n \in GroupNames : disk.runs.progress[n].status # "running"
    BY DEF Resume, resumable
  <1>3. dirs # {}
    BY <1>2, NotStates DEF CampaignInv, Beginning, NothingYet
  <1>4. Shapes' /\ Beginning' /\ Files' /\ Group' /\ Saved'
    BY <1>1, <1>3 DEF CampaignInv, Shapes, PCs, Beginning, Unmeasured, Files, Sound,
                      Current, Behind, isState, IsDict, IsProgress, Group, Measuring, Saved
  <1>5. Memory'
    BY <1>1, <1>2 DEF CampaignInv, Files, Memory, Sound, Current, Behind, Kept, isState,
                      IsDict, IsProgress
  <1> QED
    BY <1>4, <1>5 DEF CampaignInv

\* The directory of a run is made.
LEMMA InvMkdir == ASSUME CampaignInv, Mkdir PROVE CampaignInv'
  <1>1. PICK p \in {"mkdir_results", "save_first"} :
            cam' = [pc |-> p, state |-> cam.state, group |-> cam.group]
    BY Goto DEF CampaignInv, Mkdir, goto
  <1>2. Unmeasured /\ dirs' # {} /\ UNCHANGED <<disk, tree, launches, usedHarness>>
    BY DEF Mkdir, Unmeasured, At
  <1>3. NothingYet
    BY <1>2 DEF CampaignInv, Beginning
  <1>4. Shapes' /\ Beginning' /\ Group' /\ Saved'
    BY <1>1, <1>2, <1>3 DEF CampaignInv, Shapes, PCs, Beginning, NothingYet, Unmeasured,
                            Group, Measuring, Saved
  <1>5. Files'
    BY <1>2, <1>3, NotStates DEF Files, NothingYet, isState
  <1>6. Active /\ ~Measuring
    BY <1>2 DEF Unmeasured, Active, Measuring
  <1>7. Memory'
    BY <1>1, <1>2, <1>6 DEF CampaignInv, Memory, Sound, Current, Behind, Kept, isState,
                            IsDict, IsProgress
  <1> QED
    BY <1>4, <1>5, <1>7 DEF CampaignInv

\* A save that comes to its end: before it the driver's state was ahead of the file.
LEMMA InvSave == ASSUME CampaignInv, save PROVE CampaignInv'
  <1>1. Active /\ Saving /\ dirs # {}
        /\ UNCHANGED <<dirs, tree, launches, usedHarness>>
    BY DEF save, Saving, Active, CampaignInv, Beginning
  <1>2. Sound(cam.state) /\ Current(cam.state)
    BY <1>1 DEF CampaignInv, Memory
  <1>3. /\ disk' = [runs |-> disk'.runs, results |-> disk'.results]
        /\ savesTo = "runs" => disk'.runs = cam.state /\ disk'.results = disk.results
        /\ savesTo = "results" => disk'.runs = disk.runs /\ disk'.results = cam.state
    BY DEF save, savesTo, CampaignInv, Shapes
  <1>4. savesTo = "results" => disk.runs = cam.state
    BY DEF savesTo, CampaignInv, Saved
  <1>5. savesTo \in {"runs", "results"}
    BY DEF savesTo
  <1>6. Files'
    <2>1. CASE savesTo = "runs"
      BY <1>1, <1>2, <1>3, <2>1 DEF CampaignInv, Files, Memory, Sound, Current, Behind,
                                    isState, IsDict, IsProgress
    <2>2. CASE savesTo = "results"
      BY <1>1, <1>2, <1>3, <1>4, <2>2 DEF CampaignInv, Files, Sound, Current, Behind,
                                          isState, IsDict, IsProgress
    <2> QED
      BY <1>5, <2>1, <2>2
  <1>7. CASE At("finish_results")
    <2>1. cam' = NoDriver
      BY <1>7 DEF save
    <2>2. Shapes' /\ Beginning' /\ Memory' /\ Group' /\ Saved'
      BY <1>1, <1>3, <2>1 DEF CampaignInv, Shapes, PCs, Beginning, Unmeasured, NoDriver,
                              Memory, Active, Group, Measuring, Saved
    <2> QED
      BY <1>6, <2>2 DEF CampaignInv
  <1>8. CASE ~At("finish_results")
    <2>1. cam' = [pc |-> afterSave(cam.pc), state |-> cam.state, group |-> cam.group]
      BY <1>8, Goto DEF save, goto, CampaignInv
    <2>2. \/ cam.pc = "save_first"   /\ cam'.pc = "next"
          \/ cam.pc = "save_running" /\ cam'.pc = "launch"
          \/ cam.pc = "save_runs"    /\ cam'.pc = "save_results"
          \/ cam.pc = "save_results" /\ cam'.pc = "next"
          \/ cam.pc = "finish_runs"  /\ cam'.pc = "finish_results"
      BY <1>1, <1>8, <2>1 DEF Saving, At, afterSave
    <2>3. Shapes' /\ Beginning'
      BY <1>1, <1>3, <2>1, <2>2 DEF CampaignInv, Shapes, PCs, Beginning, Unmeasured
    <2>4. Memory'
      BY <1>1, <1>2, <1>3, <1>4, <1>5, <2>1, <2>2
      DEF CampaignInv, Memory, Active, Measuring, Sound, Current, Behind, Kept, isState,
          IsDict, IsProgress
    <2>5. Group' /\ Saved'
      BY <1>1, <1>3, <1>4, <2>1, <2>2
      DEF CampaignInv, Group, Measuring, spec, Saved, savesTo
    <2> QED
      BY <1>6, <2>3, <2>4, <2>5 DEF CampaignInv
  <1> QED
    BY <1>7, <1>8

\* A group the driver's state does not name has not been started.
LEMMA InvMarkRunning == ASSUME CampaignInv, MarkRunning PROVE CampaignInv'
  <1>1. PICK i \in toDo : cam' = [cam EXCEPT !.pc = "save_running", !.group = i,
                                             !.state.progress[GROUPS[i].name] = Running]
    BY DEF MarkRunning
  <1> DEFINE g == GROUPS[i].name
             t == [cam.state EXCEPT !.progress[g] = Running]
  <1>2. i \in DOMAIN GROUPS /\ g \in GroupNames /\ cam.state.progress[g] = Absent
    BY NameOfGroup DEF toDo
  <1>3. cam' = [pc |-> "save_running", state |-> t, group |-> i]
    BY <1>1 DEF CampaignInv, Shapes
  <1>4. cam.pc = "next" /\ UNCHANGED <<dirs, disk, tree, launches, usedHarness>>
    BY DEF MarkRunning, At
  <1>5. Active /\ ~Measuring /\ ~Unmeasured /\ dirs # {}
    BY <1>4 DEF Active, Measuring, Unmeasured, CampaignInv, Beginning
  <1>6. Sound(cam.state) /\ Current(cam.state)
    BY <1>5 DEF CampaignInv, Memory
  <1> HIDE DEF t, g
  <1>7. /\ IsDict(t) /\ t.progress[g] = Running
        /\ \A n \in GroupNames \ {g} : t.progress[n] = cam.state.progress[n]
        /\ t.tree = cam.state.tree /\ t.finished = cam.state.finished
    BY <1>2, <1>6, EntryUpdate DEF Sound, t
  <1>8. launches[g] = 0 /\ ~cam.state.finished
    BY <1>2, <1>6, EntriesDiffer DEF Sound, Current, CampaignInv, Shapes
  <1>9. Sound(cam.state)' /\ Current(cam.state)'
    <2>1. cam'.state = t
      BY <1>3
    <2>2. /\ IsDict(t)
          /\ \A n \in GroupNames :
               /\ t.progress[n] = Absent \/ t.progress[n].status \in {"running", "complete"}
               /\ t.progress[n].status = "complete" => launches[n] = 1
               /\ launches[n] > 0 => t.progress[n] # Absent /\ usedHarness[n] = t.tree.harness
          /\ ~t.finished
      BY <1>2, <1>6, <1>7, <1>8, EntriesDiffer DEF Sound, Current
    <2> QED
      BY <1>4, <2>1, <2>2 DEF Sound, Current, IsDict, IsProgress
  <1>10. Shapes' /\ Beginning' /\ Saved'
    BY <1>3, <1>4, <1>5 DEF CampaignInv, Shapes, PCs, Beginning, NothingYet, Unmeasured, Saved
  <1>11. Files'
    BY <1>4 DEF CampaignInv, Files, Sound, Current, Behind, isState, IsDict, IsProgress
  <1>12. Memory'
    <2>1. isState(disk.runs) => Kept(disk.runs, t)
      BY <1>2, <1>5, <1>7, EntriesDiffer DEF CampaignInv, Memory, Kept
    <2>2. isState(disk.results) => Behind(disk.results, t)
      BY <1>2, <1>5, <1>7, EntriesDiffer DEF CampaignInv, Memory, Behind
    <2>3. t.tree = tree
      BY <1>5, <1>7 DEF CampaignInv, Memory
    <2> QED
      BY <1>3, <1>4, <1>9, <2>1, <2>2, <2>3
      DEF Memory, Measuring, Kept, Behind, isState, Sound, Current, IsDict, IsProgress
  <1>13. Group'
    <2>1. cam'.group = i /\ spec'.name = g
      BY <1>3 DEF spec, g
    <2>2. \A n \in GroupNames \ {g} : t.progress[n].status # "running"
      BY <1>5, <1>7 DEF CampaignInv, Memory
    <2> QED
      BY <1>2, <1>3, <1>4, <1>7, <1>8, <2>1, <2>2 DEF Group, Measuring
  <1> QED
    BY <1>10, <1>11, <1>12, <1>13 DEF CampaignInv

\* The script is started: the file on disk names the group.
LEMMA InvLaunchGroup == ASSUME CampaignInv, LaunchGroup PROVE CampaignInv'
  <1> DEFINE g == spec.name
  <1>1. /\ cam.pc = "launch"
        /\ launches' = [launches EXCEPT ![g] = @ + 1]
        /\ usedHarness' = [usedHarness EXCEPT ![g] = tree.harness]
        /\ UNCHANGED <<dirs, disk, tree>>
    BY DEF LaunchGroup, At
  <1>2. cam' = [pc |-> "wait", state |-> cam.state, group |-> cam.group]
    BY Goto DEF LaunchGroup, goto, CampaignInv
  <1>3. /\ Active /\ Measuring /\ ~Unmeasured /\ dirs # {}
        /\ disk.runs = cam.state
    BY <1>1 DEF Active, Measuring, Unmeasured, CampaignInv, Beginning, Saved
  <1>4. /\ cam.group \in DOMAIN GROUPS /\ g \in GroupNames
        /\ cam.state.progress[g] = Running /\ launches[g] = 0
        /\ \A n \in GroupNames \ {g} : cam.state.progress[n].status # "running"
    BY <1>1, <1>3, NameOfGroup DEF CampaignInv, Group, spec
  <1> HIDE DEF g
  <1>5. /\ launches' \in [GroupNames -> {0, 1}]
        /\ launches'[g] = 1 /\ usedHarness'[g] = tree.harness
        /\ \A n \in GroupNames \ {g} : /\ launches'[n] = launches[n]
                                       /\ usedHarness'[n] = usedHarness[n]
        /\ usedHarness' = [n \in GroupNames |-> usedHarness'[n]]
    <2>1. /\ launches' \in [GroupNames -> {0, 1}] /\ launches'[g] = 1
          /\ \A n \in GroupNames \ {g} : launches'[n] = launches[n]
      BY <1>1, <1>4 DEF CampaignInv, Shapes
    <2>2. /\ usedHarness' = [n \in GroupNames |-> usedHarness'[n]]
          /\ usedHarness'[g] = tree.harness
          /\ \A n \in GroupNames \ {g} : usedHarness'[n] = usedHarness[n]
      BY <1>1, <1>4 DEF CampaignInv, Shapes
    <2> QED
      BY <2>1, <2>2
  <1>6. Sound(cam.state) /\ Current(cam.state) /\ cam.state.tree = tree
    BY <1>3 DEF CampaignInv, Memory
  <1>7. Current(cam.state)'
    BY <1>2, <1>4, <1>5, <1>6, EntriesDiffer DEF Current
  <1>8. Shapes' /\ Beginning' /\ Saved'
    BY <1>1, <1>2, <1>3, <1>5 DEF CampaignInv, Shapes, PCs, Beginning, Unmeasured, Saved
  <1>9. Files' /\ Memory'
    <2>1. Sound(disk.runs)' /\ Sound(cam.state)' /\ (isState(disk.results) => Sound(disk.results)')
      BY <1>1, <1>2, <1>3, <1>4, <1>5, <1>6 DEF CampaignInv, Files, Sound, IsDict, IsProgress
    <2>2. Current(disk.runs)'
      BY <1>1, <1>2, <1>3, <1>7 DEF Current
    <2>3. Files'
      BY <1>1, <2>1, <2>2 DEF CampaignInv, Files, Behind, isState
    <2>4. Memory'
      BY <1>1, <1>2, <1>3, <1>6, <1>7, <2>1
      DEF CampaignInv, Memory, Measuring, Kept, Behind, isState
    <2> QED
      BY <2>3, <2>4
  <1>10. Group'
    <2>1. spec'.name = g
      BY <1>2 DEF spec, g
    <2> QED
      BY <1>2, <1>4, <1>5, <2>1 DEF Group, Measuring
  <1> QED
    BY <1>8, <1>9, <1>10 DEF CampaignInv

\* The verdict replaces the mark.
LEMMA InvConclude == ASSUME CampaignInv, Conclude PROVE CampaignInv'
  <1> DEFINE g == spec.name
             e == conclusion(g, exitCode, summarizes(g))
             t == [cam.state EXCEPT !.progress[g] = e]
  <1>1. cam.pc = "wait" /\ UNCHANGED <<dirs, disk, tree, launches, usedHarness>>
    BY DEF Conclude, At
  <1>2. cam' = [pc |-> "save_runs", state |-> t, group |-> cam.group]
    <2>1. cam' = [cam EXCEPT !.pc = "save_runs", !.state.progress[g] = e]
      BY DEF Conclude
    <2> QED
      BY <2>1 DEF CampaignInv, Shapes
  <1>3. /\ Active /\ Measuring /\ ~Unmeasured /\ dirs # {}
        /\ Sound(cam.state) /\ Current(cam.state) /\ cam.state.tree = tree
    BY <1>1 DEF Active, Measuring, Unmeasured, CampaignInv, Beginning, Memory
  <1>4. /\ g \in GroupNames /\ cam.state.progress[g] = Running /\ launches[g] = 1
        /\ \A n \in GroupNames \ {g} : cam.state.progress[n].status # "running"
    BY <1>1, <1>3, NameOfGroup DEF CampaignInv, Group, spec
  <1>5. e.status = "complete"
    BY EntriesDiffer
  <1> HIDE DEF g, e, t
  <1>6. /\ IsDict(t) /\ t.progress[g] = e
        /\ \A n \in GroupNames \ {g} : t.progress[n] = cam.state.progress[n]
        /\ t.tree = cam.state.tree /\ t.finished = cam.state.finished
    BY <1>3, <1>4, EntryUpdate DEF Sound, t
  <1>7. Sound(cam.state)' /\ Current(cam.state)'
    <2>1. /\ IsDict(t)
          /\ \A n \in GroupNames :
               /\ t.progress[n] = Absent \/ t.progress[n].status \in {"running", "complete"}
               /\ t.progress[n].status = "complete" => launches[n] = 1
               /\ launches[n] > 0 => t.progress[n] # Absent /\ usedHarness[n] = t.tree.harness
          /\ t.finished => \A n \in GroupNames : t.progress[n].status = "complete"
      BY <1>3, <1>4, <1>5, <1>6, EntriesDiffer DEF Sound, Current
    <2>2. cam'.state = t
      BY <1>2
    <2> QED
      BY <1>1, <2>1, <2>2 DEF Sound, Current, IsDict, IsProgress
  <1>8. Shapes' /\ Beginning' /\ Group' /\ Saved'
    BY <1>1, <1>2, <1>3 DEF CampaignInv, Shapes, PCs, Beginning, NothingYet, Unmeasured,
                            Group, Measuring, Saved
  <1>9. Files'
    BY <1>1 DEF CampaignInv, Files, Sound, Current, Behind, isState, IsDict, IsProgress
  <1>10. Memory'
    <2>1. isState(disk.runs) => Kept(disk.runs, t)
      BY <1>3, <1>4, <1>6, EntriesDiffer DEF CampaignInv, Memory, Kept
    <2>2. isState(disk.results) => Behind(disk.results, t)
      BY <1>3, <1>5, <1>6 DEF CampaignInv, Memory, Behind
    <2>3. \A n \in GroupNames : t.progress[n].status # "running"
      BY <1>4, <1>5, <1>6
    <2>4. cam'.state = t /\ t.tree = tree
      BY <1>2, <1>3, <1>6
    <2> QED
      BY <1>1, <1>7, <2>1, <2>2, <2>3, <2>4 DEF Memory, Kept, Behind, isState
  <1> QED
    BY <1>8, <1>9, <1>10 DEF CampaignInv

\* The campaign is over when no group is left to do, and none is half done.
LEMMA InvFinish == ASSUME CampaignInv, Finish PROVE CampaignInv'
  <1> DEFINE t == [cam.state EXCEPT
                     !.finished  = TRUE,
                     !.valid     = \A n \in GroupNames : cam.state.progress[n].valid,
                     !.qualified = \A n \in GroupNames : cam.state.progress[n].qualified]
  <1>1. /\ cam.pc = "next" /\ toDo = {}
        /\ UNCHANGED <<dirs, disk, tree, launches, usedHarness>>
    BY DEF Finish, At
  <1>2. cam' = [pc |-> "finish_runs", state |-> t, group |-> cam.group]
    BY DEF Finish, CampaignInv, Shapes
  <1>3. /\ Active /\ ~Measuring /\ ~Unmeasured /\ dirs # {}
        /\ Sound(cam.state) /\ Current(cam.state) /\ cam.state.tree = tree
        /\ \A n \in GroupNames : cam.state.progress[n].status # "running"
    BY <1>1 DEF Active, Measuring, Unmeasured, CampaignInv, Beginning, Memory
  <1>4. IsDict(t) /\ t.progress = cam.state.progress /\ t.tree = cam.state.tree /\ t.finished
    <2> DEFINE v == \A n \in GroupNames : cam.state.progress[n].valid
               q == \A n \in GroupNames : cam.state.progress[n].qualified
    <2>1. t = [cam.state EXCEPT !.finished = TRUE, !.valid = v, !.qualified = q]
      OBVIOUS
    <2> HIDE DEF v, q, t
    <2>2. IsDict(cam.state)
      BY <1>3 DEF Sound
    <2>3. t = [progress |-> cam.state.progress, tree |-> cam.state.tree, finished |-> TRUE,
               valid |-> v, qualified |-> q]
      BY <2>1, <2>2 DEF IsDict
    <2> QED
      BY <2>2, <2>3 DEF IsDict
  <1> HIDE DEF t
  <1>5. \A n \in GroupNames : cam.state.progress[n].status = "complete"
    <2>1. \A n \in GroupNames : cam.state.progress[n] # Absent
      BY <1>1 DEF toDo, GroupNames
    <2> QED
      BY <1>3, <2>1 DEF Sound
  <1>6. Sound(cam.state)' /\ Current(cam.state)'
    <2>1. cam'.state = t
      BY <1>2
    <2> QED
      BY <1>1, <1>3, <1>4, <1>5, <2>1 DEF Sound, Current, IsDict, IsProgress
  <1>7. Shapes' /\ Beginning' /\ Group' /\ Saved'
    BY <1>1, <1>2, <1>3 DEF CampaignInv, Shapes, PCs, Beginning, NothingYet, Unmeasured,
                            Group, Measuring, Saved
  <1>8. Files'
    BY <1>1 DEF CampaignInv, Files, Sound, Current, Behind, isState, IsDict, IsProgress
  <1>9. Memory'
    <2>1. t.progress = cam.state.progress /\ t.tree = tree /\ t.finished
      BY <1>3, <1>4
    <2> QED
      BY <1>1, <1>2, <1>3, <1>6, <2>1
      DEF CampaignInv, Memory, Measuring, Kept, Behind, isState
  <1> QED
    BY <1>7, <1>8, <1>9 DEF CampaignInv

\* The driver dies: of a save under way a file nobody can read is left.
LEMMA InvDie == ASSUME CampaignInv, Die PROVE CampaignInv'
  <1>1. /\ cam' = [pc |-> "off", state |-> NoFile, group |-> 0]
        /\ UNCHANGED <<dirs, tree, launches, usedHarness>>
    BY DEF Die, NoDriver
  <1>2. \/ disk' = disk
        \/ /\ dirs # {}
           /\ \/ disk' = [runs |-> Torn, results |-> disk.results]
              \/ disk' = [runs |-> disk.runs, results |-> Torn]
    BY DEF Die, Saving, savesTo, CampaignInv, Shapes, Beginning
  <1>3. Shapes' /\ Beginning' /\ Memory' /\ Group' /\ Saved'
    BY <1>1, <1>2 DEF CampaignInv, Shapes, PCs, Beginning, NothingYet, Unmeasured, Memory,
                      Active, Group, Measuring, Saved
  <1>4. Files'
    BY <1>1, <1>2, NotStates DEF CampaignInv, Files, Sound, Current, Behind, isState,
                                 IsDict, IsProgress
  <1> QED
    BY <1>3, <1>4 DEF CampaignInv

\* Somebody uses a script by hand, with no campaign around.
LEMMA InvByHand == ASSUME CampaignInv, RunByHand PROVE CampaignInv'
  <1>1. /\ cam' = [pc |-> "by_hand", state |-> cam.state, group |-> cam.group]
        /\ dirs = {} /\ UNCHANGED <<dirs, disk, tree, launches, usedHarness>>
    BY Goto DEF RunByHand, goto, CampaignInv
  <1>2. Shapes' /\ Beginning' /\ Memory' /\ Group' /\ Saved'
    BY <1>1 DEF CampaignInv, Shapes, PCs, Beginning, NothingYet, Unmeasured, Memory,
                Active, Group, Measuring, Saved
  <1>3. Files'
    BY <1>1 DEF CampaignInv, Files, Sound, Current, Behind, isState, IsDict, IsProgress
  <1> QED
    BY <1>2, <1>3 DEF CampaignInv

\* Every step keeps the invariant.
LEMMA InvNext == ASSUME CampaignInv, [Next]_vars PROVE CampaignInv'
  <1>1. CASE Start  BY <1>1, InvStart
  <1>2. CASE Resume  BY <1>2, InvResume
  <1>3. CASE DriverStep
    BY <1>3, InvMkdir, InvSave, InvMarkRunning, InvLaunchGroup, InvConclude, InvFinish
    DEF DriverStep
  <1>4. CASE Die  BY <1>4, InvDie
  <1>5. CASE RunByHand  BY <1>5, InvByHand
  <1>6. CASE Script \/ ScriptKilled \/ LeftoverEnds \/ UNCHANGED vars
    BY <1>6, InvElsewhere DEF Script, ScriptKilled, LeftoverEnds, campaignVars, vars
  <1>7. CASE WriteReport \/ WriteReadme \/ RendererStopped
    BY <1>7, InvElsewhere DEF WriteReport, WriteReadme, RendererStopped
  <1>8. CASE EditSource \/ EditEvidence
    BY <1>8, InvElsewhere DEF EditSource, EditEvidence
  <1> QED
    BY <1>1, <1>2, <1>3, <1>4, <1>5, <1>6, <1>7, <1>8 DEF Next

\* The invariant holds throughout.
THEOREM CampaignInvariant == Spec => []CampaignInv
  BY InvInit, InvNext, PTL DEF Spec

\* No group's script is started twice, whatever dies and however often the campaign
\* is resumed (release_campaign.py:224-236, 258-271).
THEOREM MeasuredOnceHolds == Spec => []MeasuredOnce
  <1>1. CampaignInv => MeasuredOnce
    BY DEF CampaignInv, Shapes, MeasuredOnce
  <1> QED
    BY <1>1, CampaignInvariant, PTL

\* A finished campaign has started every group once and concluded it
\* (release_campaign.py:234-236, 284-290).
THEOREM FinishedMeansMeasuredHolds == Spec => []FinishedMeansMeasured
  <1>1. CampaignInv => FinishedMeansMeasured
    BY DEF CampaignInv, Files, Sound, FinishedMeansMeasured
  <1> QED
    BY <1>1, CampaignInvariant, PTL

\* All groups were measured by the scripts whose hashes runs/campaign.json records
\* (release_campaign.py:226-229).
THEOREM OneHarnessHolds == Spec => []OneHarness
  <1>1. CampaignInv => OneHarness
    BY DEF CampaignInv, Files, Current, OneHarness
  <1> QED
    BY <1>1, CampaignInvariant, PTL

\* The copy in the results is never ahead of runs/campaign.json
\* (release_campaign.py:281-282, 287-288).
THEOREM ResultsBehindRunsHolds == Spec => []ResultsBehindRuns
  <1>1. CampaignInv => ResultsBehindRuns
    BY DEF CampaignInv, Files, Behind, ResultsBehindRuns
  <1> QED
    BY <1>1, CampaignInvariant, PTL

\* A verdict in runs/campaign.json is not changed or lost by a later save
\* (release_campaign.py:261-264).
THEOREM VerdictsAreFinalHolds == Spec => VerdictsAreFinal
  <1> DEFINE Final == isState(disk.runs) /\ isState(disk'.runs) =>
                        \A n \in GroupNames : disk.runs.progress[n].status = "complete" =>
                            disk'.runs.progress[n] = disk.runs.progress[n]
  <1>1. ASSUME CampaignInv, [Next]_vars PROVE [Final]_vars
    <2>1. CASE save
      <3>1. disk'.runs = disk.runs \/ disk'.runs = cam.state
        BY <1>1, <2>1 DEF save, savesTo, CampaignInv, Shapes
      <3>2. Active
        BY <2>1 DEF save, Saving, Active
      <3> QED
        BY <1>1, <3>1, <3>2 DEF CampaignInv, Memory, Kept
    <2>2. CASE Die
      <3>1. disk'.runs = disk.runs \/ disk'.runs = Torn
        BY <1>1, <2>2 DEF Die, savesTo, CampaignInv, Shapes
      <3> QED
        BY <3>1, NotStates
    <2>3. CASE UNCHANGED disk
      BY <2>3
    <2> QED
      BY <1>1, <2>1, <2>2, <2>3
      DEF Next, Start, Resume, DriverStep, Mkdir, MarkRunning, LaunchGroup, Conclude, Finish,
          RunByHand, Script, ScriptKilled, WriteReport, WriteReadme, RendererStopped,
          EditSource, EditEvidence, LeftoverEnds, campaignVars, vars
  <1> QED
    BY <1>1, CampaignInvariant, PTL DEF Spec, VerdictsAreFinal

-----------------------------------------------------------------------------
\* What the scripts leave behind: the proof of NoForgottenContainer.

\* The steps of a sequence that start a container start one of these roles.
StartsOnly(s, roles) == \A i \in 1..Len(s) : s[i].do = "start" => s[i].role \in roles
pathSteps == {start(x) : x \in {"cache", "target", "client"}}
             \cup {step(x) : x \in {"ready", "await", "measure", "record", "cgroup",
                                    "flag", "sample"}}

\* What a script can start in a run.
rolesOf(script, run) ==
    IF run = Prologue THEN IF script \in {"http", "media"} THEN {"origin"} ELSE {}
    ELSE CASE script = "strong" -> {"server", "client"}
           [] script = "http"   -> {"cache", "target", "client"}
           [] script = "matrix" -> {"server"}
           [] script = "media"  -> {"cache", "target"}
           [] script = "limits" -> {"server"}

IsPlace(a) == a \in Nat \ {0}
IsRun(j, r) == r \in {Prologue} \cup DOMAIN jobNamed(j.name).runs
JobOK(j) ==
    /\ j = [name |-> j.name, script |-> j.script, run |-> j.run, at |-> j.at,
            phase |-> j.phase, active |-> j.active, sweep |-> j.sweep,
            measured |-> j.measured, failed |-> j.failed]
    /\ jobNamed(j.name) \in Jobs
    /\ jobNamed(j.name).name = j.name
    /\ jobNamed(j.name).script = j.script
    /\ IsRun(j, j.run)
    /\ IsPlace(j.at)
    /\ j.phase \in {"body", "sweep", "ending"}
    /\ j.phase = "sweep" => "origin" \notin j.sweep

\* A script under way is not none.
LEMMA JobIsOne == \A j : JobOK(j) => j # NoJob
  BY DEF JobOK, NoJob

\* The script goes on: what it keeps of where it was.
Moved(j, r, a, p, ac, sw, m, f) ==
    [name |-> j.name, script |-> j.script, run |-> r, at |-> a, phase |-> p,
     active |-> ac, sweep |-> sw, measured |-> m, failed |-> f]

\* The script goes on, to a place of its schedule.
LEMMA JobMoves ==
    ASSUME NEW j, JobOK(j), NEW r, IsRun(j, r), NEW a, IsPlace(a), NEW p \in {"body", "sweep", "ending"}, NEW ac, NEW sw,
           p = "sweep" => "origin" \notin sw, NEW m, NEW f
    PROVE  /\ JobOK(Moved(j, r, a, p, ac, sw, m, f))
           /\ Moved(j, r, a, p, ac, sw, m, f) # NoJob
  <1> DEFINE k == Moved(j, r, a, p, ac, sw, m, f)
  <1>1. /\ k = [name |-> k.name, script |-> k.script, run |-> k.run, at |-> k.at,
                phase |-> k.phase, active |-> k.active, sweep |-> k.sweep,
                measured |-> k.measured, failed |-> k.failed]
        /\ k.name = j.name /\ k.script = j.script /\ k.run = r /\ k.at = a /\ k.phase = p
        /\ k.sweep = sw
    BY DEF Moved
  <1> HIDE DEF k
  <1>2. /\ jobNamed(k.name) \in Jobs
        /\ jobNamed(k.name).name = k.name
        /\ jobNamed(k.name).script = k.script
        /\ IsRun(k, k.run)
    <2>1. jobNamed(k.name) = jobNamed(j.name)
      BY <1>1
    <2> QED
      BY <1>1, <2>1 DEF JobOK, IsRun
  <1>3. JobOK(k)
    BY <1>1, <1>2 DEF JobOK
  <1> QED
    BY <1>3, JobIsOne DEF k

\* Two sequences of steps, one after the other.
LEMMA ConcatStarts ==
    ASSUME NEW a \in Seq(pathSteps), NEW b \in Seq(pathSteps), NEW roles,
           StartsOnly(a, roles), StartsOnly(b, roles)
    PROVE  StartsOnly(a \o b, roles)
  <1> SUFFICES ASSUME NEW i \in 1..Len(a \o b), (a \o b)[i].do = "start"
               PROVE  (a \o b)[i].role \in roles
    BY DEF StartsOnly
  <1>1. CASE i <= Len(a)
    <2>1. (a \o b)[i] = a[i] /\ i \in 1..Len(a)
      BY <1>1
    <2> QED
      BY <2>1 DEF StartsOnly
  <1>2. CASE i > Len(a)
    <2>1. (a \o b)[i] = b[i - Len(a)] /\ i - Len(a) \in 1..Len(b)
      BY <1>2
    <2> QED
      BY <2>1 DEF StartsOnly
  <1> QED
    BY <1>1, <1>2

\* The containers of an HTTP path.
LEMMA PathStarts ==
    ASSUME NEW engine \in {"nginx", "grpc_adapter", "origin_direct"}
    PROVE  /\ pathContainers(engine) \in Seq(pathSteps)
           /\ StartsOnly(pathContainers(engine), {"cache", "target"})
  <1>4. start("cache") \in pathSteps /\ start("target") \in pathSteps
    BY DEF pathSteps
  <1>5. /\ StartsOnly(<<start("target")>>, {"cache", "target"})
        /\ StartsOnly(<<start("cache"), start("target")>>, {"cache", "target"})
    BY DEF StartsOnly, start
  <1>1. CASE engine = "nginx"
    <2>1. pathContainers(engine) = <<start("target")>>
      BY <1>1 DEF pathContainers
    <2> QED
      BY <2>1, <1>4, <1>5
  <1>2. CASE engine = "grpc_adapter"
    <2>1. pathContainers(engine) = <<start("cache"), start("target")>>
      BY <1>2 DEF pathContainers
    <2> QED
      BY <2>1, <1>4, <1>5
  <1>3. CASE engine = "origin_direct"
    <2>1. pathContainers(engine) = <<>>
      BY <1>3 DEF pathContainers
    <2> QED
      BY <2>1 DEF pathSteps, StartsOnly
  <1> QED
    BY <1>1, <1>2, <1>3

\* What a run starts is what rolesOf says.
LEMMA RunStarts ==
    ASSUME NEW script, NEW run, NEW engine,
           script \in {"strong", "http", "matrix", "media", "limits"},
           run # Prologue /\ script \in {"http", "media"}
               => engine \in {"nginx", "grpc_adapter", "origin_direct"}
    PROVE  StartsOnly(Steps(script, run, engine), rolesOf(script, run))
  <1> DEFINE s == Steps(script, run, engine)
  <1>1. CASE run = Prologue
    <2>1. s = IF script \in {"http", "media"} THEN <<start("origin")>> ELSE <<>>
      BY <1>1 DEF Steps, prologueSteps
    <2>2. rolesOf(script, run) = IF script \in {"http", "media"} THEN {"origin"} ELSE {}
      BY <1>1 DEF rolesOf
    <2>3. StartsOnly(<<start("origin")>>, {"origin"}) /\ StartsOnly(<<>>, {})
      BY DEF StartsOnly, start
    <2> QED
      BY <2>1, <2>2, <2>3
  <1>2. CASE run # Prologue /\ script = "strong"
    <2>1. s = strongSteps /\ rolesOf(script, run) = {"server", "client"}
      BY <1>2 DEF Steps, rolesOf
    <2>2. StartsOnly(strongSteps, {"server", "client"})
      BY DEF StartsOnly, strongSteps, start, step
    <2> QED
      BY <2>1, <2>2
  <1>3. CASE run # Prologue /\ script = "http"
    <2> DEFINE rest == <<step("ready"), start("client"), step("await"), step("measure"),
                         step("record"), step("cgroup"), step("flag")>>
    <2>1. s = pathContainers(engine) \o rest /\ rolesOf(script, run) = {"cache", "target", "client"}
      BY <1>3 DEF Steps, rolesOf, httpSteps
    <2>2. rest \in Seq(pathSteps)
      <3>1. \A i \in 1..7 : rest[i] \in pathSteps
        <4>1. /\ step("ready") \in pathSteps /\ start("client") \in pathSteps
              /\ step("await") \in pathSteps /\ step("measure") \in pathSteps
              /\ step("record") \in pathSteps /\ step("cgroup") \in pathSteps
              /\ step("flag") \in pathSteps
          BY DEF pathSteps
        <4> QED
          BY <4>1
      <3> QED
        BY <3>1
    <2>3. StartsOnly(rest, {"cache", "target", "client"})
      BY DEF StartsOnly, start, step
    <2>4. /\ pathContainers(engine) \in Seq(pathSteps)
          /\ StartsOnly(pathContainers(engine), {"cache", "target", "client"})
      BY <1>3, PathStarts DEF StartsOnly
    <2> HIDE DEF s, rest
    <2> QED
      BY <2>1, <2>2, <2>3, <2>4, ConcatStarts DEF s
  <1>4. CASE run # Prologue /\ script = "matrix"
    <2>1. s = matrixSteps /\ rolesOf(script, run) = {"server"}
      BY <1>4 DEF Steps, rolesOf
    <2>2. StartsOnly(matrixSteps, {"server"})
      BY DEF StartsOnly, matrixSteps, start, step
    <2> QED
      BY <2>1, <2>2
  <1>5. CASE run # Prologue /\ script = "media"
    <2> DEFINE rest == <<step("ready"), step("sample")>>
    <2>1. s = pathContainers(engine) \o rest /\ rolesOf(script, run) = {"cache", "target"}
      BY <1>5 DEF Steps, rolesOf, mediaSteps
    <2>2. rest \in Seq(pathSteps)
      <3>1. step("ready") \in pathSteps /\ step("sample") \in pathSteps
        BY DEF pathSteps
      <3> QED
        BY <3>1
    <2>3. StartsOnly(rest, {"cache", "target"})
      BY DEF StartsOnly, step
    <2>4. /\ pathContainers(engine) \in Seq(pathSteps)
          /\ StartsOnly(pathContainers(engine), {"cache", "target"})
      BY <1>5, PathStarts
    <2> HIDE DEF s, rest
    <2> QED
      BY <2>1, <2>2, <2>3, <2>4, ConcatStarts DEF s
  <1>6. CASE run # Prologue /\ script = "limits"
    <2>1. s = limitsSteps /\ rolesOf(script, run) = {"server"}
      BY <1>6 DEF Steps, rolesOf
    <2>2. StartsOnly(limitsSteps, {"server"})
      BY DEF StartsOnly, limitsSteps, start, step
    <2> QED
      BY <2>1, <2>2
  <1> QED
    BY <1>1, <1>2, <1>3, <1>4, <1>5, <1>6

\* A container that a run starts has one of its roles.
LEMMA RoleOfStart ==
    ASSUME JobOK(job), AtStep("start")
    PROVE  role \in rolesOf(job.script, job.run)
  <1> DEFINE s == stepsNow
             e == runOf(job).engine
  <1>1. s[job.at].do = "start" /\ job.at \in 1..Len(s)
    BY DEF AtStep, JobOK, IsPlace
  <1>2. job.script \in {"strong", "http", "matrix", "media", "limits"}
    BY JobsAssumption DEF JobOK
  <1>3. job.run # Prologue /\ job.script \in {"http", "media"}
            => e \in {"nginx", "grpc_adapter", "origin_direct"}
    BY JobsAssumption DEF JobOK, IsRun, runOf
  <1>4. StartsOnly(s, rolesOf(job.script, job.run))
    BY <1>2, <1>3, RunStarts DEF stepsNow
  <1> QED
    BY <1>1, <1>4 DEF StartsOnly, role

-----------------------------------------------------------------------------
\* Every container of the script under way that Docker has not failed on is one
\* that the rest of the script will stop and remove.
Owed(j, c) ==
    CASE j.phase = "ending" -> c.role \in j.sweep
      [] j.phase # "ending" /\ c.run = Prologue ->
            /\ c.role = "origin" /\ j.script \in {"http", "media"}
            /\ j.script = "media" => "origin" \in j.active
      [] j.phase # "ending" /\ c.run # Prologue ->
            c.role \in IF j.script = "limits" THEN {"server"}
                       ELSE IF j.phase = "body" THEN sweepOf(j.script, j.run, j.active)
                       ELSE j.sweep

Uses(j, c) == c.name = j.name /\ c.run \in {j.run, Prologue}
SweepOK(j, cs, tr) == \A c \in cs : Uses(j, c) /\ id(c) \notin tr => Owed(j, c)

SweepInv ==
    /\ NoForgottenContainer
    /\ job # NoJob => JobOK(job) /\ SweepOK(job, containers, trouble)

\* While a script is under way its own containers and network need no excuse.
LEMMA StillUnderWay ==
    ASSUME SweepInv, job # NoJob, job' # NoJob, job'.name = job.name, networks' = networks,
           trouble \subseteq trouble',
           \A c \in containers' : \/ c \in containers /\ (Uses(job, c) => Uses(job', c) \/ id(c) \in trouble')
                                  \/ Uses(job', c)
    PROVE  NoForgottenContainer'
  <1>1. \A c \in containers' : (job' # NoJob /\ Uses(job', c)) \/ id(c) \in trouble'
    BY DEF SweepInv, NoForgottenContainer, InUse, Uses
  <1>2. \A n \in networks' : (job' # NoJob /\ job'.name = n) \/ \E x \in trouble' : x[1] = n
    BY DEF SweepInv, NoForgottenContainer
  <1> QED
    BY <1>1, <1>2 DEF NoForgottenContainer, InUse, Uses, id

\* A step of a run that starts and stops nothing.
LEMMA SweepAdvance ==
    ASSUME SweepInv, job # NoJob, NEW m,
           job' = [job EXCEPT !.at = @ + 1, !.measured = m],
           UNCHANGED <<containers, networks, trouble>>
    PROVE  SweepInv'
  <1>1. JobOK(job) /\ SweepOK(job, containers, trouble)
    BY DEF SweepInv
  <1>2. job' = Moved(job, job.run, job.at + 1, job.phase, job.active, job.sweep, m, job.failed)
    BY <1>1 DEF JobOK, Moved
  <1>3. JobOK(job') /\ job' # NoJob
    <2>1. IsPlace(job.at + 1)
      BY <1>1 DEF JobOK, IsPlace
    <2> DEFINE a == job.at + 1
    <2> HIDE DEF a
    <2>2. IsPlace(a) /\ job' = Moved(job, job.run, a, job.phase, job.active, job.sweep, m, job.failed)
      BY <1>2, <2>1 DEF a
    <2>3. /\ IsRun(job, job.run) /\ job.phase \in {"body", "sweep", "ending"}
          /\ job.phase = "sweep" => "origin" \notin job.sweep
      BY <1>1 DEF JobOK
    <2> QED
      BY <1>1, <2>2, <2>3, JobMoves
  <1>4. SweepOK(job', containers', trouble')
    BY <1>1, <1>2 DEF SweepOK, Uses, Owed, Moved
  <1>5. NoForgottenContainer'
    BY <1>2, <1>3, StillUnderWay DEF Uses, Moved
  <1> QED
    BY <1>3, <1>4, <1>5 DEF SweepInv

\* What a step of the script that goes on has to show.
LEMMA SweepStep ==
    ASSUME SweepInv, job # NoJob, JobOK(job'), job' # NoJob, job'.name = job.name,
           networks' = networks, trouble \subseteq trouble',
           SweepOK(job', containers', trouble'),
           \A c \in containers' : \/ c \in containers /\ (Uses(job, c) => Uses(job', c) \/ id(c) \in trouble')
                                  \/ Uses(job', c)
    PROVE  SweepInv'
  <1>1. NoForgottenContainer'
    BY StillUnderWay
  <1> QED
    BY <1>1 DEF SweepInv

\* A container just started is one the script will sweep.
LEMMA StartedIsOwed ==
    ASSUME JobOK(job), AtStep("start"), NEW c, c.run = job.run, c.role = role, NEW j,
           j.script = job.script, j.run = job.run, j.phase = "body",
           SweptByName \/ role \in j.active
    PROVE  Owed(j, c)
  <1>1. role \in rolesOf(job.script, job.run)
    BY RoleOfStart
  <1>2. job.script \in {"strong", "http", "matrix", "media", "limits"}
    BY JobsAssumption DEF JobOK
  <1> DEFINE r == role
             sc == job.script
  <1>3. CASE job.run = Prologue
    <2>1. r = "origin" /\ sc \in {"http", "media"}
      BY <1>1, <1>3 DEF rolesOf
    <2>2. sc = "media" => "origin" \in j.active
      BY <2>1 DEF SweptByName
    <2> QED
      BY <1>3, <2>1, <2>2 DEF Owed
  <1>4. CASE job.run # Prologue
    <2>1. /\ sc \in {"strong", "matrix"} => r \in sweepOf(sc, job.run, j.active)
          /\ sc = "limits" => r = "server"
      BY <1>1, <1>4 DEF rolesOf, sweepOf
    <2>2. sc \in {"http", "media"} => r # "origin" /\ r \in j.active
      BY <1>1, <1>4 DEF rolesOf, SweptByName
    <2>3. sc \in {"http", "media"} => sweepOf(sc, job.run, j.active) = j.active \ {"origin"}
      BY <1>4 DEF sweepOf
    <2> QED
      BY <1>2, <1>4, <2>1, <2>2, <2>3 DEF Owed
  <1> QED
    BY <1>3, <1>4

\* A container is started.
LEMMA SweepStart == ASSUME SweepInv, StartContainer PROVE SweepInv'
  <1> DEFINE ac == IF job.script = "http" /\ role = "origin" THEN job.active
                   ELSE job.active \cup {role}
             new == [name |-> job.name, run |-> job.run, role |-> role, up |-> TRUE]
             a == job.at + 1
  <1>1. /\ job # NoJob /\ JobOK(job) /\ SweepOK(job, containers, trouble)
        /\ AtStep("start") /\ job.phase = "body"
        /\ UNCHANGED <<networks, trouble>>
    BY DEF StartContainer, AtStep, SweepInv
  <1>2. /\ job' = Moved(job, job.run, a, "body", ac, job.sweep, job.measured, job.failed)
        /\ containers' = containers \cup {new}
    BY <1>1 DEF StartContainer, JobOK, Moved
  <1>3. IsPlace(a) /\ IsRun(job, job.run)
    BY <1>1 DEF JobOK, IsPlace
  <1>4. SweptByName \/ role \in ac
    BY <1>1, RoleOfStart DEF SweptByName, rolesOf
  <1>5. job.active \subseteq ac
    OBVIOUS
  <1>6. new.name = job.name /\ new.run = job.run /\ new.role = role
    OBVIOUS
  <1> HIDE DEF ac, new, a
  <1>7. JobOK(job') /\ job' # NoJob
    BY <1>1, <1>2, <1>3, JobMoves
  <1>8. /\ job'.name = job.name /\ job'.script = job.script /\ job'.run = job.run
        /\ job'.phase = "body" /\ job'.active = ac
    BY <1>2 DEF Moved
  <1>9. Owed(job', new)
    BY <1>1, <1>4, <1>6, <1>8, StartedIsOwed
  <1>10. ASSUME NEW c \in containers, Uses(job, c), id(c) \notin trouble
         PROVE  Owed(job', c)
    <2>1. Owed(job, c)
      BY <1>1, <1>10 DEF SweepOK
    <2>2. CASE c.run = Prologue
      BY <1>1, <1>5, <1>8, <2>1, <2>2 DEF Owed
    <2>3. CASE c.run # Prologue
      <3>1. sweepOf(job.script, job.run, job.active) \subseteq sweepOf(job.script, job.run, ac)
        <4>1. job.script \in {"strong", "http", "matrix", "media", "limits"}
          BY <1>1, JobsAssumption DEF JobOK
        <4> QED
          BY <1>5, <4>1 DEF sweepOf
      <3> QED
        BY <1>1, <1>8, <2>1, <2>3, <3>1 DEF Owed
    <2> QED
      BY <2>2, <2>3
  <1>11. SweepOK(job', containers', trouble')
    BY <1>1, <1>2, <1>8, <1>9, <1>10 DEF SweepOK, Uses
  <1> QED
    BY <1>1, <1>2, <1>6, <1>7, <1>8, <1>11, SweepStep DEF Uses

\* Outside a run that catches it, an exception meets a script with a sweep of its own.
LEMMA UncaughtHasSweep ==
    ASSUME JobOK(job), NEW what, AtStep(what), ~caught(job.script, job.run)
    PROVE  job.script \in {"media", "limits"} \/ (job.script = "http" /\ job.run = Prologue)
  <1>1. job.script \in {"strong", "http", "matrix", "media", "limits"}
    BY JobsAssumption DEF JobOK
  <1>2. ASSUME job.script \in {"strong", "matrix"}, job.run = Prologue PROVE FALSE
    <2>1. stepsNow = <<>>
      BY <1>2 DEF stepsNow, Steps, prologueSteps
    <2>2. job.at <= Len(<<>>)
      BY <2>1 DEF AtStep
    <2> QED
      BY <2>2 DEF JobOK, IsPlace
  <1> QED
    BY <1>1, <1>2 DEF caught

\* An exception leaves nothing behind that will not be swept.
LEMMA SweepRaise ==
    ASSUME job # NoJob, JobOK(job), NEW what, AtStep(what), NEW h, Raise(h), NEW cs, NEW tr,
           SweepOK(job, cs, tr)
    PROVE  /\ JobOK(job') /\ job' # NoJob /\ job'.name = job.name /\ job'.run = job.run
           /\ SweepOK(job', cs, tr)
  <1>1. job.phase = "body" /\ IsPlace(job.at) /\ IsRun(job, job.run)
    BY DEF AtStep, JobOK
  <1>2. job.script \in {"strong", "http", "matrix", "media", "limits"}
    BY JobsAssumption DEF JobOK
  <1>3. CASE caught(job.script, job.run)
    <2> DEFINE sw == sweepOf(job.script, job.run, job.active)
    <2>1. job' = Moved(job, job.run, job.at, "sweep", job.active, sw, job.measured, ~h)
      BY <1>3 DEF Raise, JobOK, Moved
    <2>2. "origin" \notin sw
      BY <1>2 DEF sweepOf
    <2> HIDE DEF sw
    <2>3. JobOK(job') /\ job' # NoJob
      BY <1>1, <2>1, <2>2, JobMoves
    <2>4. /\ job'.name = job.name /\ job'.script = job.script /\ job'.run = job.run
          /\ job'.phase = "sweep" /\ job'.active = job.active /\ job'.sweep = sw
      BY <2>1 DEF Moved
    <2>5. SweepOK(job', cs, tr)
      BY <1>1, <2>4 DEF SweepOK, Uses, Owed, sw
    <2> QED
      BY <2>3, <2>4, <2>5
  <1>4. CASE ~caught(job.script, job.run)
    <2> DEFINE sw == lastSweep(job.script, job.active)
    <2>1. job' = Moved(job, job.run, job.at, "ending", job.active, sw, job.measured, TRUE)
      BY <1>4 DEF Raise, JobOK, Moved
    <2>2. job.script \in {"media", "limits"} \/ (job.script = "http" /\ job.run = Prologue)
      BY <1>4, UncaughtHasSweep
    <2>3. /\ job.script = "media" => sw = job.active
          /\ job.script = "limits" => sw = {"server"}
          /\ job.script = "http" => sw = {"origin"}
      BY DEF lastSweep
    <2> HIDE DEF sw
    <2>4. JobOK(job') /\ job' # NoJob
      BY <1>1, <2>1, JobMoves
    <2>5. /\ job'.name = job.name /\ job'.script = job.script /\ job'.run = job.run
          /\ job'.phase = "ending" /\ job'.sweep = sw
      BY <2>1 DEF Moved
    <2>6. ASSUME NEW c, Uses(job, c), Owed(job, c) PROVE c.role \in sw
      <3>1. CASE c.run = Prologue
        BY <1>1, <2>2, <2>3, <2>6, <3>1 DEF Owed
      <3>2. CASE c.run # Prologue
        <4>1. job.script = "media" => sweepOf(job.script, job.run, job.active) \subseteq job.active
          BY <1>2 DEF sweepOf
        <4> QED
          BY <1>1, <2>2, <2>3, <2>6, <3>2, <4>1 DEF Owed, Uses
      <3> QED
        BY <3>1, <3>2
    <2>7. SweepOK(job', cs, tr)
      BY <2>5, <2>6 DEF SweepOK, Uses, Owed
    <2> QED
      BY <2>4, <2>5, <2>7
  <1> QED
    BY <1>3, <1>4

\* A step raises, or a container cannot be configured.
LEMMA SweepStepRaises == ASSUME SweepInv, StartRaises \/ StepRaises PROVE SweepInv'
  <1>1. PICK what : AtStep(what)
    BY DEF StartRaises, StepRaises
  <1>2. PICK h : Raise(h)
    BY DEF StartRaises, StepRaises, Thrown
  <1>3. /\ job # NoJob /\ JobOK(job) /\ SweepOK(job, containers, trouble)
        /\ UNCHANGED <<containers, networks, trouble>>
    BY <1>1 DEF StartRaises, StepRaises, AtStep, SweepInv
  <1>4. /\ JobOK(job') /\ job' # NoJob /\ job'.name = job.name /\ job'.run = job.run
        /\ SweepOK(job', containers, trouble)
    BY <1>1, <1>2, <1>3, SweepRaise
  <1> QED
    BY <1>3, <1>4, SweepStep DEF Uses

\* A container that is excused and one of the run's own.
LEMMA SweepExcused ==
    ASSUME SweepInv, job # NoJob, NEW new, new.name = job.name, new.run = job.run,
           containers' = containers \cup {new}, trouble' = trouble \cup {id(new)},
           networks' = networks,
           \/ job' = job
           \/ \E what, h : AtStep(what) /\ Raise(h)
    PROVE  SweepInv'
  <1>1. JobOK(job) /\ SweepOK(job, containers, trouble)
    BY DEF SweepInv
  <1>2. SweepOK(job, containers', trouble') /\ trouble \subseteq trouble'
    BY <1>1 DEF SweepOK
  <1>3. /\ JobOK(job') /\ job' # NoJob /\ job'.name = job.name /\ job'.run = job.run
        /\ SweepOK(job', containers', trouble')
    <2>1. CASE job' = job
      BY <1>1, <1>2, <2>1
    <2>2. CASE \E what, h : AtStep(what) /\ Raise(h)
      BY <1>1, <1>2, <2>2, SweepRaise
    <2> QED
      BY <2>1, <2>2
  <1> QED
    BY <1>2, <1>3, SweepStep DEF Uses

\* A client run with --rm outlasts its timeout.
LEMMA SweepHelper == ASSUME SweepInv, HelperOutlives PROVE SweepInv'
  <1> DEFINE new == helper(job.name, job.run)
  <1>1. /\ containers' = containers \cup {new} /\ trouble' = trouble \cup {id(new)}
        /\ networks' = networks
    BY DEF HelperOutlives
  <1>2. new.name = job.name /\ new.run = job.run
    BY DEF helper
  <1>3. PICK what : AtStep(what)
    BY DEF HelperOutlives, runsHelper
  <1>4. job' = job \/ \E h : Raise(h)
    BY DEF HelperOutlives, Thrown
  <1>5. job # NoJob
    BY <1>3 DEF AtStep
  <1> HIDE DEF new
  <1> QED
    BY <1>1, <1>2, <1>3, <1>4, <1>5, SweepExcused

\* `docker run' fails, perhaps with the container made.
LEMMA SweepStartFails == ASSUME SweepInv, StartFails PROVE SweepInv'
  <1>1. /\ job # NoJob /\ JobOK(job) /\ SweepOK(job, containers, trouble)
        /\ AtStep("start") /\ networks' = networks /\ job.phase = "body"
    BY DEF StartFails, AtStep, SweepInv
  <1>2. PICK h : Raise(h)
    BY DEF StartFails, Thrown
  <1>3. CASE UNCHANGED <<containers, trouble>>
    <2>1. /\ JobOK(job') /\ job' # NoJob /\ job'.name = job.name /\ job'.run = job.run
          /\ SweepOK(job', containers', trouble')
      BY <1>1, <1>2, <1>3, SweepRaise
    <2> QED
      BY <1>1, <1>3, <2>1, SweepStep DEF Uses
  <1>4. ASSUME NEW up,
               LET new == [name |-> job.name, run |-> job.run, role |-> role, up |-> up] IN
               /\ containers' = containers \cup {new}
               /\ trouble' = IF SweptByName THEN trouble ELSE trouble \cup {id(new)}
        PROVE  SweepInv'
    <2> DEFINE new == [name |-> job.name, run |-> job.run, role |-> role, up |-> up]
    <2>1. /\ new.name = job.name /\ new.run = job.run /\ new.role = role
          /\ containers' = containers \cup {new}
          /\ trouble' = IF SweptByName THEN trouble ELSE trouble \cup {id(new)}
      BY <1>4
    <2> HIDE DEF new
    <2>2. CASE SweptByName
      <3>1. Owed(job, new)
        BY <1>1, <2>1, <2>2, StartedIsOwed
      <3>2. SweepOK(job, containers', trouble')
        BY <1>1, <2>1, <2>2, <3>1 DEF SweepOK
      <3>3. /\ JobOK(job') /\ job' # NoJob /\ job'.name = job.name /\ job'.run = job.run
            /\ SweepOK(job', containers', trouble')
        BY <1>1, <1>2, <3>2, SweepRaise
      <3> QED
        BY <1>1, <2>1, <2>2, <3>3, SweepStep DEF Uses
    <2>3. CASE ~SweptByName
      BY <1>1, <1>2, <2>1, <2>3, SweepExcused
    <2> QED
      BY <2>2, <2>3
  <1> QED
    BY <1>3, <1>4 DEF StartFails

\* The body of a run is over.
LEMMA SweepEndBody == ASSUME SweepInv, EndBody PROVE SweepInv'
  <1> DEFINE sw == sweepOf(job.script, job.run, job.active)
  <1>1. /\ job # NoJob /\ JobOK(job) /\ SweepOK(job, containers, trouble)
        /\ job.phase = "body" /\ UNCHANGED <<containers, networks, trouble>>
    BY DEF EndBody, SweepInv
  <1>2. job' = Moved(job, job.run, job.at, "sweep", job.active, sw, job.measured, job.failed)
    BY <1>1 DEF EndBody, JobOK, Moved
  <1>3. "origin" \notin sw /\ IsPlace(job.at) /\ IsRun(job, job.run)
    BY <1>1, JobsAssumption DEF sweepOf, JobOK
  <1> HIDE DEF sw
  <1>4. JobOK(job') /\ job' # NoJob
    BY <1>1, <1>2, <1>3, JobMoves
  <1>5. /\ job'.name = job.name /\ job'.script = job.script /\ job'.run = job.run
        /\ job'.phase = "sweep" /\ job'.active = job.active /\ job'.sweep = sw
    BY <1>2 DEF Moved
  <1>6. SweepOK(job', containers', trouble')
    BY <1>1, <1>5 DEF SweepOK, Uses, Owed, sw
  <1> QED
    BY <1>1, <1>4, <1>5, <1>6, SweepStep DEF Uses

\* There is a container that was started last.
LEMMA LatestIsOne == ASSUME NEW S, S # {} PROVE latest(S) \in S
  <1> DEFINE top(r) == \A q \in S : startOrder(q) <= startOrder(r)
  <1>1. \A r : startOrder(r) \in {1, 2, 3, 4}
    BY DEF startOrder
  <1>2. \E r \in S : top(r)
    <2>1. CASE \E r \in S : startOrder(r) = 4
      BY <1>1, <2>1
    <2>2. CASE (\A r \in S : startOrder(r) # 4) /\ \E r \in S : startOrder(r) = 3
      BY <1>1, <2>2
    <2>3. CASE (\A r \in S : startOrder(r) \notin {3, 4}) /\ \E r \in S : startOrder(r) = 2
      BY <1>1, <2>3
    <2>4. CASE \A r \in S : startOrder(r) \notin {2, 3, 4}
      BY <1>1, <2>4
    <2> QED
      BY <2>1, <2>2, <2>3, <2>4
  <1> QED
    BY <1>2 DEF latest

\* What stays to be swept after the latest container has been dealt with.
LEMMA SweepRestOK ==
    ASSUME JobOK(job), job.phase \in {"sweep", "ending"}, job.sweep # {}, job' = sweepRest,
           SweepOK(job, containers, trouble), NEW cs, NEW tr, trouble \subseteq tr,
           \A c \in cs : id(c) \in tr \/ (c \in containers /\ c \notin swept)
    PROVE  /\ JobOK(job') /\ job' # NoJob /\ job'.name = job.name /\ job'.run = job.run
           /\ SweepOK(job', cs, tr)
  <1> DEFINE last == latest(job.sweep)
             sw == job.sweep \ {last}
             ac == job.active \ {last}
  <1>1. job' = Moved(job, job.run, job.at, job.phase, ac, sw, job.measured, job.failed)
    BY DEF sweepRest, JobOK, Moved
  <1>2. /\ job.phase = "sweep" => "origin" \notin sw
        /\ IsPlace(job.at) /\ IsRun(job, job.run)
    BY DEF JobOK
  <1>3. JobOK(job') /\ job' # NoJob
    <2> HIDE DEF sw, ac
    <2> QED
      BY <1>1, <1>2, JobMoves
  <1>4. /\ job'.name = job.name /\ job'.script = job.script /\ job'.run = job.run
        /\ job'.phase = job.phase /\ job'.active = ac /\ job'.sweep = sw
    BY <1>1 DEF Moved
  <1>5. ASSUME NEW c \in cs, Uses(job', c), id(c) \notin tr
        PROVE  Owed(job', c)
    <2>1. Owed(job, c) /\ Uses(job, c)
      BY <1>4, <1>5 DEF SweepOK, Uses
    <2>2. c.role \in job.sweep => c.role # last
      BY <1>5, <2>1 DEF swept, toSweep, Uses
    <2>3. CASE job.phase = "ending"
      BY <1>4, <2>1, <2>2, <2>3 DEF Owed
    <2>4. CASE job.phase = "sweep" /\ c.run = Prologue
      <3>1. /\ c.role = "origin" /\ job.script \in {"http", "media"}
            /\ job.script = "media" => "origin" \in job.active
        BY <2>1, <2>4 DEF Owed
      <3>2. "origin" # last
        BY <2>4, LatestIsOne DEF JobOK
      <3>3. job.script = "media" => "origin" \in ac
        BY <3>1, <3>2
      <3> QED
        BY <1>4, <2>4, <3>1, <3>3 DEF Owed
    <2>5. CASE job.phase = "sweep" /\ c.run # Prologue
      BY <1>4, <2>1, <2>2, <2>5 DEF Owed
    <2> QED
      BY <2>3, <2>4, <2>5
  <1>6. SweepOK(job', cs, tr)
    BY <1>5 DEF SweepOK
  <1> QED
    BY <1>3, <1>4, <1>6

\* A container is stopped and removed, or Docker does not stop or remove it.
LEMMA SweepCleanUp == ASSUME SweepInv, CleanUp \/ StopFails PROVE SweepInv'
  <1>1. /\ job # NoJob /\ job.phase \in {"sweep", "ending"} /\ job.sweep # {}
        /\ job' = sweepRest /\ networks' = networks
    BY DEF CleanUp, StopFails, Sweeping
  <1>2. JobOK(job) /\ SweepOK(job, containers, trouble)
    BY <1>1 DEF SweepInv
  <1>3. \A c \in swept : /\ id(stopped(c)) = id(c) /\ Uses(job, c) /\ Uses(job, stopped(c))
    BY DEF stopped, id, swept, toSweep, Uses
  <1>4. /\ trouble \subseteq trouble'
        /\ \A c \in containers' :
             \/ c \in containers /\ c \notin swept
             \/ id(c) \in trouble' /\ Uses(job, c)
    <2>1. CASE CleanUp
      BY <2>1 DEF CleanUp
    <2>2. CASE StopFails
      <3>1. /\ \A c \in swept : id(c) \in trouble'
            /\ \A c \in containers' : c \in containers \/ \E k \in swept : c = stopped(k)
            /\ trouble \subseteq trouble'
        BY <2>2 DEF StopFails
      <3> QED
        BY <1>3, <3>1
    <2> QED
      BY <2>1, <2>2
  <1>5. /\ JobOK(job') /\ job' # NoJob /\ job'.name = job.name /\ job'.run = job.run
        /\ SweepOK(job', containers', trouble')
    BY <1>1, <1>2, <1>4, SweepRestOK
  <1> QED
    BY <1>1, <1>4, <1>5, SweepStep DEF Uses

\* The sweep of a run raises.
LEMMA SweepCutShort == ASSUME SweepInv, SweepRaises PROVE SweepInv'
  <1> DEFINE sw == lastSweep(job.script, job.active)
  <1>1. /\ job # NoJob /\ job.phase = "sweep"
        /\ containers' \subseteq containers /\ networks' = networks
    BY DEF SweepRaises, Sweeping
  <1>2. JobOK(job) /\ SweepOK(job, containers, trouble)
    BY <1>1 DEF SweepInv
  <1>3. job' = Moved(job, job.run, job.at, "ending", job.active, sw, job.measured, TRUE)
    BY <1>2 DEF SweepRaises, JobOK, Moved
  <1>4. trouble \subseteq trouble' /\ \A c \in toSweep : c.role \in sw \/ id(c) \in trouble'
    BY DEF SweepRaises
  <1>5. IsPlace(job.at) /\ IsRun(job, job.run)
    BY <1>2 DEF JobOK
  <1>6. /\ job.script = "media" => sw = job.active
        /\ job.script = "http" => sw = {"origin"}
        /\ job.script = "limits" => sw = {"server"}
    BY DEF lastSweep
  <1> HIDE DEF sw
  <1>7. JobOK(job') /\ job' # NoJob
    BY <1>2, <1>3, <1>5, JobMoves
  <1>8. /\ job'.name = job.name /\ job'.run = job.run
        /\ job'.phase = "ending" /\ job'.sweep = sw
    BY <1>3 DEF Moved
  <1>9. ASSUME NEW c \in containers, Uses(job', c), id(c) \notin trouble'
        PROVE  Owed(job', c)
    <2>1. Owed(job, c) /\ Uses(job, c)
      BY <1>2, <1>4, <1>8, <1>9 DEF SweepOK, Uses
    <2>2. CASE c.role \in job.sweep
      <3>1. c \in toSweep
        BY <2>1, <2>2 DEF toSweep, Uses
      <3> QED
        BY <1>4, <1>8, <1>9, <3>1 DEF Owed
    <2>3. CASE c.role \notin job.sweep
      <3>1. c.role \in sw
        BY <1>1, <1>6, <2>1, <2>3 DEF Owed
      <3> QED
        BY <1>8, <3>1 DEF Owed
    <2> QED
      BY <2>2, <2>3
  <1>10. SweepOK(job', containers', trouble')
    BY <1>1, <1>9 DEF SweepOK
  <1> QED
    BY <1>1, <1>4, <1>7, <1>8, <1>10, SweepStep DEF Uses

\* When a run is over only what was started before it is still there.
LEMMA RunOverLeaves ==
    ASSUME SweepInv, RunOver, NEW c \in containers, Uses(job, c),
           id(c) \notin trouble
    PROVE  /\ c.run # Prologue => job.script = "limits" /\ c.role = "server" /\ job.run # Prologue
           /\ c.run = Prologue => /\ c.role = "origin" /\ job.script \in {"http", "media"}
                                  /\ job.script = "media" => "origin" \in job.active
  <1>1. job # NoJob /\ job.phase = "sweep" /\ job.sweep = {}
    BY DEF RunOver
  <1>2. Owed(job, c)
    BY <1>1 DEF SweepInv, SweepOK
  <1> QED
    BY <1>1, <1>2 DEF Owed, Uses

\* The schedule is over, or the last thing a run does raises.
LEMMA SweepScheduleOver == ASSUME SweepInv, ScheduleOver \/ FlashRaises PROVE SweepInv'
  <1> DEFINE sw == lastSweep(job.script, job.active)
  <1>1. /\ RunOver /\ job # NoJob /\ UNCHANGED <<containers, networks, trouble>>
    BY DEF ScheduleOver, FlashRaises, RunOver
  <1>2. JobOK(job) /\ SweepOK(job, containers, trouble)
    BY <1>1 DEF SweepInv
  <1>3. PICK f : job' = Moved(job, job.run, job.at, "ending", job.active, sw, job.measured, f)
    <2>1. CASE ScheduleOver
      BY <1>2, <2>1 DEF ScheduleOver, JobOK, Moved
    <2>2. CASE FlashRaises
      BY <1>2, <2>2 DEF FlashRaises, JobOK, Moved
    <2> QED
      BY <2>1, <2>2
  <1>4. IsPlace(job.at) /\ IsRun(job, job.run)
    BY <1>2 DEF JobOK
  <1>5. /\ job.script = "media" => sw = job.active
        /\ job.script = "http" => sw = {"origin"}
        /\ job.script = "limits" => sw = {"server"}
    BY DEF lastSweep
  <1> HIDE DEF sw
  <1>6. JobOK(job') /\ job' # NoJob
    BY <1>2, <1>3, <1>4, JobMoves
  <1>7. /\ job'.name = job.name /\ job'.run = job.run
        /\ job'.phase = "ending" /\ job'.sweep = sw
    BY <1>3 DEF Moved
  <1>8. ASSUME NEW c \in containers, Uses(job', c), id(c) \notin trouble
        PROVE  Owed(job', c)
    <2>1. Uses(job, c)
      BY <1>7, <1>8 DEF Uses
    <2>2. c.role \in sw
      BY <1>1, <1>5, <1>8, <2>1, RunOverLeaves
    <2> QED
      BY <1>7, <2>2 DEF Owed
  <1>9. SweepOK(job', containers', trouble')
    BY <1>1, <1>8 DEF SweepOK
  <1> QED
    BY <1>1, <1>6, <1>7, <1>9, SweepStep DEF Uses

\* A set of numbers has a least one.
LEMMA LeastOf ==
    ASSUME NEW T, T \subseteq Nat, T # {}
    PROVE  \E j \in T : \A l \in T : j <= l
  <1> DEFINE R == {ss \in Nat \X Nat : ss[1] < ss[2]}
  <1>1. IsWellFoundedOn(R, Nat)
    BY NatLessThanWellFounded DEF OpToRel
  <1> HIDE DEF R
  <1>2. \E j \in T : \A l \in T : <<l, j>> \notin R
    BY <1>1, WFMin
  <1>3. ASSUME NEW j \in T, NEW l \in T, <<l, j>> \notin R PROVE j <= l
    BY <1>3 DEF R
  <1> QED
    BY <1>2, <1>3

\* The next run is one of those left, and only scripts that swept have one.
LEMMA NextRunIs ==
    ASSUME JobOK(job), runsLeft # {}
    PROVE  \E r \in runsLeft : /\ r = (CHOOSE i \in runsLeft : \A k \in runsLeft : i <= k)
                               /\ r # Prologue /\ IsRun(job, r) /\ r # job.run
                               /\ job.script = "limits" => job.run = Prologue
  <1>1. runsLeft \subseteq Nat \ {0}
    BY JobsAssumption DEF runsLeft, JobOK
  <1>2. \E j \in runsLeft : \A l \in runsLeft : j <= l
    BY <1>1, LeastOf
  <1>3. PICK r \in runsLeft : r = (CHOOSE i \in runsLeft : \A k \in runsLeft : i <= k)
    BY <1>2
  <1>4. r \in DOMAIN jobNamed(job.name).runs /\ r > job.run
    BY <1>3 DEF runsLeft
  <1>5. job.run \in Nat
    BY JobsAssumption DEF JobOK, IsRun, Prologue
  <1>6. r \in Nat \ {0}
    BY <1>1
  <1>7. job.script = "limits" => job.run = Prologue
    <2>1. SUFFICES ASSUME job.script = "limits", job.run # Prologue PROVE FALSE
      OBVIOUS
    <2>2. DOMAIN jobNamed(job.name).runs = {1}
      BY <2>1, JobsAssumption DEF JobOK
    <2> QED
      BY <1>4, <2>1, <2>2 DEF JobOK, IsRun
  <1> QED
    BY <1>3, <1>4, <1>5, <1>6, <1>7 DEF IsRun, Prologue

\* The script goes on to its next run.
LEMMA SweepNextRun == ASSUME SweepInv, NextRun PROVE SweepInv'
  <1>1. /\ RunOver /\ job # NoJob /\ UNCHANGED <<containers, networks, trouble>>
    BY DEF NextRun, RunOver
  <1>2. JobOK(job) /\ SweepOK(job, containers, trouble)
    BY <1>1 DEF SweepInv
  <1>3. PICK r \in runsLeft : /\ r = (CHOOSE i \in runsLeft : \A k \in runsLeft : i <= k)
                              /\ r # Prologue /\ IsRun(job, r) /\ r # job.run
                              /\ job.script = "limits" => job.run = Prologue
    BY <1>2, NextRunIs DEF NextRun
  <1>4. job' = Moved(job, r, 1, "body", job.active, job.sweep, NoResult, job.failed)
    BY <1>2, <1>3 DEF NextRun, JobOK, Moved
  <1>5. IsPlace(1)
    BY DEF IsPlace
  <1>6. JobOK(job') /\ job' # NoJob
    <2> DEFINE one == 1
    <2> HIDE DEF one
    <2>1. IsPlace(one) /\ job' = Moved(job, r, one, "body", job.active, job.sweep, NoResult, job.failed)
      BY <1>4, <1>5 DEF one
    <2> QED
      BY <1>2, <1>3, <2>1, JobMoves
  <1>7. /\ job'.name = job.name /\ job'.script = job.script /\ job'.run = r
        /\ job'.phase = "body" /\ job'.active = job.active
    BY <1>4 DEF Moved
  <1>8. ASSUME NEW c \in containers, Uses(job, c), id(c) \notin trouble
        PROVE  /\ c.run = Prologue /\ c.role = "origin" /\ job.script \in {"http", "media"}
               /\ job.script = "media" => "origin" \in job.active
    BY <1>1, <1>3, <1>8, RunOverLeaves
  <1>9. ASSUME NEW c \in containers, Uses(job', c), id(c) \notin trouble
        PROVE  Owed(job', c)
    <2>1. Uses(job, c)
      BY <1>1, <1>9, <1>7 DEF SweepInv, NoForgottenContainer, InUse, Uses
    <2>2. /\ c.run = Prologue /\ c.role = "origin" /\ job.script \in {"http", "media"}
          /\ job.script = "media" => "origin" \in job.active
      BY <1>8, <1>9, <2>1
    <2> QED
      BY <1>7, <2>2 DEF Owed
  <1>10. SweepOK(job', containers', trouble')
    BY <1>1, <1>9 DEF SweepOK
  <1>11. \A c \in containers' : c \in containers /\ (Uses(job, c) => Uses(job', c) \/ id(c) \in trouble')
    BY <1>1, <1>7, <1>8 DEF Uses
  <1> QED
    BY <1>1, <1>6, <1>7, <1>10, <1>11, SweepStep

\* A script that is over needs an excuse for each container and network it leaves.
LEMMA SweepOver ==
    ASSUME SweepInv, job # NoJob, job' = NoJob, networks' \subseteq networks,
           trouble \subseteq trouble',
           \A c \in containers' : c \in containers /\ (Uses(job, c) => id(c) \in trouble'),
           job.name \in networks' => \E x \in trouble' : x[1] = job.name
    PROVE  SweepInv'
  <1>1. \A c \in containers' : id(c) \in trouble'
    BY DEF SweepInv, NoForgottenContainer, InUse, Uses
  <1>2. \A n \in networks' : \E x \in trouble' : x[1] = n
    BY DEF SweepInv, NoForgottenContainer
  <1> QED
    BY <1>1, <1>2 DEF SweepInv, NoForgottenContainer, id

\* The script ends.
LEMMA SweepExit == ASSUME SweepInv, Exit \/ NetworkStays PROVE SweepInv'
  <1>1. /\ job # NoJob /\ job.phase = "ending" /\ job.sweep = {} /\ job' = NoJob
        /\ containers' = containers /\ trouble \subseteq trouble' /\ networks' \subseteq networks
    BY DEF Exit, NetworkStays
  <1>2. \A c \in containers : Uses(job, c) => id(c) \in trouble
    BY <1>1 DEF SweepInv, SweepOK, Owed
  <1>3. job.name \in networks' => \E x \in trouble' : x[1] = job.name
    <2>1. CASE Exit /\ \E c \in containers : c.name = job.name
      <3>1. PICK c \in containers : c.name = job.name
        BY <2>1
      <3>2. id(c) \in trouble
        BY <1>2, <3>1 DEF SweepInv, NoForgottenContainer, InUse, Uses
      <3>3. id(c)[1] = job.name
        BY <3>1 DEF id
      <3> QED
        BY <1>1, <3>2, <3>3
    <2>2. CASE Exit /\ ~\E c \in containers : c.name = job.name
      BY <2>2 DEF Exit
    <2>3. CASE NetworkStays
      <3>1. networkOf(job.name) \in trouble' /\ networkOf(job.name)[1] = job.name
        BY <2>3 DEF NetworkStays, networkOf
      <3> QED
        BY <3>1
    <2> QED
      BY <2>1, <2>2, <2>3
  <1> QED
    BY <1>1, <1>2, <1>3, SweepOver

\* The script is killed, or what it does last raises.
LEMMA SweepKilled == ASSUME SweepInv, HarnessKilled \/ LastSweepRaises PROVE SweepInv'
  <1>1. /\ job # NoJob /\ job' = NoJob /\ containers' \subseteq containers
        /\ networks' = networks /\ trouble \subseteq trouble'
        /\ networkOf(job.name) \in trouble'
    <2>1. CASE HarnessKilled
      BY <2>1 DEF HarnessKilled
    <2>2. CASE LastSweepRaises
      <3>1. containers' = containers \/ containers' = containers \ swept
        BY <2>2 DEF LastSweepRaises
      <3>2. containers' \subseteq containers
        BY <3>1
      <3> QED
        BY <2>2, <3>2 DEF LastSweepRaises, Sweeping
    <2> QED
      BY <2>1, <2>2
  <1>2. networkOf(job.name)[1] = job.name
    BY DEF networkOf
  <1>3. ASSUME NEW c \in containers, Uses(job, c) PROVE id(c) \in trouble'
    <2>1. CASE HarnessKilled
      BY <1>3, <2>1 DEF HarnessKilled, Uses
    <2>2. CASE LastSweepRaises /\ id(c) \notin trouble
      <3>1. job.phase = "ending"
        BY <2>2 DEF LastSweepRaises
      <3>2. c.role \in job.sweep
        BY <1>1, <1>3, <2>2, <3>1 DEF SweepInv, SweepOK, Owed
      <3>3. c \in toSweep
        BY <1>3, <3>2 DEF toSweep, Uses
      <3> QED
        BY <2>2, <3>3 DEF LastSweepRaises
    <2> QED
      BY <1>1, <2>1, <2>2
  <1>4. \A c \in containers' : c \in containers /\ (Uses(job, c) => id(c) \in trouble')
    BY <1>1, <1>3
  <1>5. job.name \in networks' => \E x \in trouble' : x[1] = job.name
    BY <1>1, <1>2
  <1>6. networks' \subseteq networks
    BY <1>1
  <1> QED
    BY <1>1, <1>4, <1>5, <1>6, SweepOver

\* A script is started.
LEMMA SweepLaunch == ASSUME SweepInv, NEW j \in Jobs, Launch(j) PROVE SweepInv'
  <1>1. /\ job = NoJob /\ networks' = networks \cup {j.name}
        /\ UNCHANGED <<containers, trouble>>
        /\ job' = [name |-> j.name, script |-> j.script, run |-> Prologue, at |-> 1,
                   phase |-> "body", active |-> {}, sweep |-> {},
                   measured |-> NoResult, failed |-> FALSE]
    BY DEF Launch
  <1>2. jobNamed(j.name) = j
    BY JobsAssumption DEF jobNamed
  <1>3. IsPlace(1)
    BY DEF IsPlace
  <1>4. /\ job'.name = j.name /\ job'.script = j.script /\ job'.run = Prologue
        /\ job'.at = 1 /\ job'.phase = "body"
        /\ job' = [name |-> job'.name, script |-> job'.script, run |-> job'.run, at |-> job'.at,
                   phase |-> job'.phase, active |-> job'.active, sweep |-> job'.sweep,
                   measured |-> job'.measured, failed |-> job'.failed]
    BY <1>1
  <1>5. IsRun(job', job'.run)
    BY <1>4 DEF IsRun
  <1>6. jobNamed(job'.name) = j
    BY <1>2, <1>4
  <1>7. JobOK(job')
    <2>1. IsPlace(job'.at)
      BY <1>3, <1>4
    <2> QED
      BY <1>4, <1>5, <1>6, <2>1 DEF JobOK
  <1>8. \A c \in containers : id(c) \in trouble
    BY <1>1 DEF SweepInv, NoForgottenContainer, InUse
  <1>9. NoForgottenContainer'
    BY <1>1, <1>4, <1>7, <1>8, JobIsOne DEF SweepInv, NoForgottenContainer
  <1> QED
    BY <1>1, <1>7, <1>8, <1>9 DEF SweepInv, SweepOK

\* Every step of a script keeps the invariant.
LEMMA SweepScript == ASSUME SweepInv, HarnessStep PROVE SweepInv'
  <1>1. CASE Wait \/ Verify \/ Record \/ WriteCgroups \/ Flag \/ Sample
    <2>1. /\ job # NoJob /\ job' = [job EXCEPT !.at = @ + 1]
          /\ UNCHANGED <<containers, networks, trouble>>
      BY <1>1 DEF Wait, Verify, Record, WriteCgroups, Flag, Sample, AtStep, Advance
    <2>2. job' = [job EXCEPT !.at = @ + 1, !.measured = job.measured]
      BY <2>1 DEF SweepInv, JobOK
    <2> QED
      BY <2>1, <2>2, SweepAdvance
  <1>2. CASE Measure
    <2>1. PICK m : job' = [job EXCEPT !.at = @ + 1, !.measured = m]
      BY <1>2 DEF Measure
    <2>2. job # NoJob /\ UNCHANGED <<containers, networks, trouble>>
      BY <1>2 DEF Measure, AtStep
    <2> QED
      BY <2>1, <2>2, SweepAdvance
  <1>3. CASE StartContainer  BY <1>3, SweepStart
  <1>4. CASE StartRaises \/ StepRaises  BY <1>4, SweepStepRaises
  <1>5. CASE StartFails  BY <1>5, SweepStartFails
  <1>6. CASE EndBody  BY <1>6, SweepEndBody
  <1>7. CASE CleanUp \/ StopFails  BY <1>7, SweepCleanUp
  <1>8. CASE SweepRaises  BY <1>8, SweepCutShort
  <1>9. CASE NextRun  BY <1>9, SweepNextRun
  <1>10. CASE ScheduleOver \/ FlashRaises  BY <1>10, SweepScheduleOver
  <1>11. CASE Exit \/ NetworkStays  BY <1>11, SweepExit
  <1>12. CASE HelperOutlives  BY <1>12, SweepHelper
  <1>13. CASE LastSweepRaises  BY <1>13, SweepKilled
  <1> QED
    BY <1>1, <1>2, <1>3, <1>4, <1>5, <1>6, <1>7, <1>8, <1>9, <1>10, <1>11, <1>12, <1>13
    DEF HarnessStep

\* Nobody but a script and those who start one touch containers: one may end by
\* itself, or be left over by a script that was refused.
LEMMA SweepElsewhere ==
    ASSUME SweepInv, job' = job, networks' = networks, trouble \subseteq trouble',
           \A c \in containers' : c \in containers \/ (id(c) \in trouble' /\ job = NoJob)
    PROVE  SweepInv'
  BY DEF SweepInv, NoForgottenContainer, InUse, SweepOK, id

\* Every step keeps the invariant.
LEMMA SweepNext == ASSUME SweepInv, CampaignInv, [Next]_vars PROVE SweepInv'
  <1>1. CASE Script  BY <1>1, SweepScript DEF Script
  <1>2. CASE ScriptKilled  BY <1>2, SweepKilled DEF ScriptKilled
  <1>3. CASE RunByHand  BY <1>3, SweepLaunch DEF RunByHand
  <1>4. CASE LaunchGroup
    <2>1. group_command(spec) \in Jobs
      BY <1>4, GroupsAssumption DEF CampaignInv, Group, Measuring, LaunchGroup, At, spec
    <2>2. CASE Launch(group_command(spec))
      BY <2>1, <2>2, SweepLaunch
    <2>3. CASE Refused(group_command(spec))
      BY <2>3, SweepElsewhere DEF Refused
    <2> QED
      BY <1>4, <2>2, <2>3 DEF LaunchGroup
  <1>5. CASE UNCHANGED <<job, containers, networks, trouble>>
    BY <1>5, SweepElsewhere
  <1>6. CASE LeftoverEnds  BY <1>6, SweepElsewhere DEF LeftoverEnds, HelperEnds
  <1> QED
    BY <1>1, <1>2, <1>3, <1>4, <1>5, <1>6
    DEF Next, Start, Resume, DriverStep, Mkdir, save, MarkRunning, Conclude, Finish, Die,
        WriteReport, WriteReadme, RendererStopped, EditSource, EditEvidence, harnessVars, vars

\* Nothing has been started.
LEMMA SweepInit == Init => SweepInv
  BY DEF Init, HarnessInit, SweepInv, NoForgottenContainer

\* For every list of jobs, however often the environment fails: what a script leaves
\* behind is what trouble names, container by container, and every failure that
\* puts one there is a step of its own, in the body, in a handler, in a sweep or in
\* main's finally (run_strong.py:300-309, run_http.py:157-164,
\* run_matrix.py:174-182, run_limits.py:54-58).
THEOREM NoForgottenContainerHolds == Spec => []NoForgottenContainer
  <1>1. SweepInv => NoForgottenContainer
    BY DEF SweepInv
  <1>2. Spec => []SweepInv
    BY SweepInit, SweepNext, CampaignInvariant, PTL DEF Spec
  <1> QED
    BY <1>1, <1>2, PTL

-----------------------------------------------------------------------------
\* What the evidence says: the proofs of ValidMeansMeasured, CheckedClaimsBacked and
\* SummaryAgrees.

\* What the evidence of a group says, when it is taken and later.
runsOf(n) == DOMAIN specOf(n).runs
FileShape(f) == f = [probe |-> f.probe, result |-> f.result, cgroup |-> f.cgroup,
                     error |-> f.error, flash |-> f.flash]
Shaped(fs, ms) ==
    /\ fs = [n \in Names |-> fs[n]] /\ ms = [n \in Names |-> ms[n]]
    /\ \A n \in Names : /\ fs[n] = [i \in DOMAIN jobNamed(n).runs |-> fs[n][i]]
                        /\ ms[n] = [i \in DOMAIN jobNamed(n).runs |-> ms[n][i]]
                        /\ \A i \in DOMAIN jobNamed(n).runs : FileShape(fs[n][i])

\* An outcome is one that the group's client can print.
Printed(n, ms) ==
    \A i \in runsOf(n) : ms[i] = NoResult \/ ms[i] \in Outcomes(group_command(specOf(n)).script)

\* A group that was never started has left nothing.
Untouched(n) == /\ \A i \in runsOf(n) : files[n][i] = NoFiles
                /\ tables[n] = "none"

\* Nobody else has a say while a script is under way.
JobIsWaitedFor ==
    job # NoJob =>
        \/ cam.pc = "wait" /\ job.name = spec.name
        \/ /\ cam.pc \in {"off", "by_hand"}
           /\ isState(disk.runs) => \E n \in GroupNames : disk.runs.progress[n].status = "running"
JobIsNotDone ==
    job # NoJob /\ job.name \in GroupNames =>
        /\ launches[job.name] = 1
        /\ isState(disk.runs) => disk.runs.progress[job.name].status # "complete"
        /\ isState(disk.results) => disk.results.progress[job.name].status # "complete"

\* The files of the group that the driver waits for.
tiered(n, i) == specOf(n).kind = "kv" /\ specOf(n).runs[i].engine \in FILE_TIER_ENGINES
FilesTrue(n, i, f, d) ==
    /\ readable(f.result) => f.result = d
    /\ tiered(n, i) /\ f.result # NoResult => f.flash # "none"
    /\ f.flash \in {"none", "filled", "recorded"}
    /\ f.flash = "filled" => tiered(n, i)
stepsOf(j) == Steps(j.script, j.run, runOf(j).engine)
MeasuresNoMore(s, a) == \A k \in a..Len(s) : s[k].do # "measure"
Remaining(j, f, d) ==
    /\ j.measured \in {NoResult, d}
    /\ j.phase = "body" /\ f.result # NoResult => MeasuresNoMore(stepsOf(j), j.at)
    /\ j.phase = "body" /\ tiered(j.name, j.run) /\ j.at > 1 => f.flash # "none"
Waiting(n, j, code, fs, ms) ==
    /\ \A i \in runsOf(n) : FilesTrue(n, i, fs[i], ms[i])
    /\ j = NoJob /\ code = 0 => \A i \in runsOf(n) : fs[i].flash # "filled"
    /\ j # NoJob =>
         /\ j.phase # "ending" => \A i \in runsOf(n) : i > j.run => fs[i] = NoFiles
         /\ ~j.failed => \A i \in runsOf(n) : fs[i].flash = "filled" => i = j.run /\ j.phase # "ending"
         /\ j.run # Prologue => Remaining(j, fs[j.run], ms[j.run])
         /\ j.phase = "body" => ~j.failed

\* A verdict, and what has become of its evidence.
Verdict(n, e, ms, tb) ==
    /\ DOMAIN e.evidence.raw = runsOf(n)
    /\ e.evidence.generated \in {"none", "made"}
    /\ e.evidence.generated = "none" => tb = "none"
    /\ \A i \in runsOf(n) : LET h == e.evidence.raw[i] IN
          readable(h.result) => h.result = ms[i]
    /\ e.valid => \A i \in runsOf(n) :
          /\ ~problem(specOf(n), e.evidence.raw[i])
          /\ e.evidence.raw[i].cgroup
          /\ tiered(n, i) => e.evidence.raw[i].flash = "recorded"
DictTrue(s, ms, tbs) ==
    \A n \in GroupNames :
        /\ s.progress[n].status # "complete" => ~s.progress[n].valid
        /\ s.progress[n].status = "complete" => Verdict(n, s.progress[n], ms[n], tbs[n])

EvidenceInv ==
    /\ Shaped(files, measured)
    /\ \A n \in GroupNames : Printed(n, measured[n])
    /\ \A n \in GroupNames : launches[n] = 0 => Untouched(n)
    /\ JobIsWaitedFor /\ JobIsNotDone
    /\ DOMAIN tables = GroupNames
    /\ cam.pc = "wait" => /\ disk.runs = cam.state /\ tables[spec.name] = "none"
                          /\ Waiting(spec.name, job, exitCode, files[spec.name], measured[spec.name])
    /\ Active => DictTrue(cam.state, measured, tables)
    /\ isState(disk.runs) => DictTrue(disk.runs, measured, tables)
    /\ isState(disk.results) => DictTrue(disk.results, measured, tables)

-----------------------------------------------------------------------------
\* A group is the job its command starts.
LEMMA GroupJob ==
    ASSUME NEW n \in GroupNames
    PROVE  /\ specOf(n).name = n /\ n \in Names
           /\ \E i \in DOMAIN GROUPS : specOf(n) = GROUPS[i]
           /\ jobNamed(n) = group_command(specOf(n))
           /\ DOMAIN jobNamed(n).runs = runsOf(n)
  <1>1. PICK i \in DOMAIN GROUPS : GROUPS[i].name = n
    BY DEF GroupNames
  <1>2. specOf(n).name = n /\ \E k \in DOMAIN GROUPS : specOf(n) = GROUPS[k]
    BY <1>1 DEF specOf
  <1>3. group_command(specOf(n)) \in Jobs /\ group_command(specOf(n)).name = n
    BY <1>2, GroupsAssumption DEF group_command
  <1>4. jobNamed(n) = group_command(specOf(n))
    BY <1>3, JobsAssumption DEF jobNamed
  <1>5. n \in Names
    BY <1>3 DEF Names
  <1>6. DOMAIN jobNamed(n).runs = runsOf(n)
    BY <1>4 DEF group_command, runsOf
  <1> QED
    BY <1>2, <1>4, <1>5, <1>6

\* The group under way is the one of that name.
LEMMA SpecNow ==
    ASSUME cam.group \in DOMAIN GROUPS
    PROVE  spec.name \in GroupNames /\ spec = specOf(spec.name)
  <1>1. spec = GROUPS[cam.group] /\ spec.name \in GroupNames
    BY DEF spec, GroupNames
  <1>2. PICK i \in DOMAIN GROUPS : specOf(spec.name) = GROUPS[i] /\ GROUPS[i].name = spec.name
    BY <1>1, GroupJob
  <1>3. i = cam.group
    BY <1>1, <1>2, GroupsAssumption
  <1> QED
    BY <1>1, <1>2, <1>3

-----------------------------------------------------------------------------
\* The order of the steps of a run.
Orderly(s) ==
    /\ \A k, l \in 1..Len(s) : s[k].do = "record" /\ s[l].do = "measure" => l < k
    /\ \A k \in 1..Len(s) : s[k].do # "sample"

\* What is started first does not disturb the order of the rest.
LEMMA OrderlyConcat ==
    ASSUME NEW A, NEW p \in Seq(A), NEW t \in Seq(A), Orderly(t),
           \A i \in 1..Len(p) : p[i].do = "start"
    PROVE  Orderly(p \o t)
  <1>1. \A i \in 1..Len(p \o t) :
            \/ (p \o t)[i].do = "start"
            \/ i - Len(p) \in 1..Len(t) /\ (p \o t)[i] = t[i - Len(p)]
    <2> TAKE i \in 1..Len(p \o t)
    <2>1. CASE i <= Len(p)
      BY <2>1
    <2>2. CASE i > Len(p)
      BY <2>2
    <2> QED
      BY <2>1, <2>2
  <1>2. ASSUME NEW k \in 1..Len(p \o t), NEW l \in 1..Len(p \o t),
               (p \o t)[k].do = "record", (p \o t)[l].do = "measure"
        PROVE  l < k
    <2>1. k - Len(p) \in 1..Len(t) /\ t[k - Len(p)].do = "record"
      BY <1>1, <1>2
    <2>2. l - Len(p) \in 1..Len(t) /\ t[l - Len(p)].do = "measure"
      BY <1>1, <1>2
    <2>3. l - Len(p) < k - Len(p)
      BY <2>1, <2>2 DEF Orderly
    <2> QED
      BY <2>3
  <1>3. ASSUME NEW k \in 1..Len(p \o t) PROVE (p \o t)[k].do # "sample"
    BY <1>1 DEF Orderly
  <1> QED
    BY <1>2, <1>3 DEF Orderly

\* Every group's script measures before it records, and run_once begins with its
\* server.
LEMMA StepsInOrder ==
    ASSUME NEW script \in {"strong", "http"}, NEW run, run # Prologue, NEW engine,
           script = "http" => engine \in {"nginx", "grpc_adapter", "origin_direct"}
    PROVE  /\ Orderly(Steps(script, run, engine))
           /\ script = "strong" => Steps(script, run, engine)[1] = start("server")
  <1>1. CASE script = "strong"
    <2>1. Steps(script, run, engine) = strongSteps
      BY <1>1 DEF Steps
    <2>2. Orderly(strongSteps) /\ strongSteps[1] = start("server")
      BY DEF Orderly, strongSteps, start, step
    <2> QED
      BY <2>1, <2>2
  <1>2. CASE script = "http"
    <2> DEFINE rest == <<step("ready"), start("client"), step("await"), step("measure"),
                         step("record"), step("cgroup"), step("flag")>>
               p == pathContainers(engine)
    <2>1. Steps(script, run, engine) = p \o rest
      BY <1>2 DEF Steps, httpSteps
    <2>2. rest \in Seq(pathSteps)
      <3>1. /\ step("ready") \in pathSteps /\ start("client") \in pathSteps
            /\ step("await") \in pathSteps /\ step("measure") \in pathSteps
            /\ step("record") \in pathSteps /\ step("cgroup") \in pathSteps
            /\ step("flag") \in pathSteps
        BY DEF pathSteps
      <3>2. \A i \in 1..7 : rest[i] \in pathSteps
        BY <3>1
      <3> QED
        BY <3>2
    <2>3. Orderly(rest)
      BY DEF Orderly, start, step
    <2>4. p \in Seq(pathSteps)
      BY <1>2, PathStarts
    <2>5. \A i \in 1..Len(p) : p[i].do = "start"
      <3>1. p = <<start("target")>> \/ p = <<start("cache"), start("target")>> \/ p = <<>>
        BY <1>2 DEF pathContainers
      <3> QED
        BY <3>1 DEF start
    <2> HIDE DEF p, rest
    <2>6. Orderly(p \o rest)
      BY <2>2, <2>3, <2>4, <2>5, OrderlyConcat
    <2> QED
      BY <1>2, <2>1, <2>6
  <1> QED
    BY <1>1, <1>2

-----------------------------------------------------------------------------
\* What a step of a script has to show: it writes in its own directory only, and
\* what the driver waits for stays true.
LEMMA EvidenceScript ==
    ASSUME CampaignInv, EvidenceInv, UNCHANGED campaignVars, job # NoJob,
           job' = NoJob \/ job'.name = job.name,
           Shaped(files', measured'),
           \A n \in GroupNames : Printed(n, measured'[n]),
           \A n \in Names : n # job.name => files'[n] = files[n] /\ measured'[n] = measured[n],
           cam.pc = "wait" => Waiting(spec.name, job', exitCode', files'[spec.name],
                                      measured'[spec.name])
    PROVE  EvidenceInv'
  <1>1. UNCHANGED <<cam, disk, tables, launches>>
    BY DEF campaignVars
  <1>2. \A n \in GroupNames : n # job.name => files'[n] = files[n] /\ measured'[n] = measured[n]
    BY GroupJob
  <1>3. \A n \in GroupNames : launches'[n] = 0 => Untouched(n)'
    <2> SUFFICES ASSUME NEW n \in GroupNames, launches[n] = 0 PROVE Untouched(n)'
      BY <1>1
    <2>1. n # job.name
      BY DEF EvidenceInv, JobIsNotDone
    <2>2. Untouched(n)
      BY DEF EvidenceInv
    <2> QED
      BY <1>1, <1>2, <2>1, <2>2 DEF Untouched
  <1>4. JobIsWaitedFor' /\ JobIsNotDone'
    BY <1>1 DEF EvidenceInv, JobIsWaitedFor, JobIsNotDone, spec, isState
  <1>5. ASSUME NEW s, DictTrue(s, measured, tables),
               job.name \in GroupNames => s.progress[job.name].status # "complete"
        PROVE  DictTrue(s, measured', tables')
    BY <1>1, <1>2, <1>5 DEF DictTrue
  <1>6. isState(disk'.runs) => DictTrue(disk'.runs, measured', tables')
    BY <1>1, <1>5 DEF EvidenceInv, JobIsNotDone, isState
  <1>7. isState(disk'.results) => DictTrue(disk'.results, measured', tables')
    BY <1>1, <1>5 DEF EvidenceInv, JobIsNotDone, isState
  <1>8. Active' => DictTrue(cam'.state, measured', tables')
    <2> SUFFICES ASSUME Active PROVE DictTrue(cam.state, measured', tables')
      BY <1>1 DEF Active
    <2>1. cam.pc = "wait" /\ job.name = spec.name
      BY DEF EvidenceInv, JobIsWaitedFor, Active
    <2>2. cam.state.progress[job.name] = Running
      BY <2>1 DEF CampaignInv, Group, Measuring
    <2>3. cam.state.progress[job.name].status # "complete"
      BY <2>2, EntriesDiffer
    <2> QED
      BY <1>5, <2>3 DEF EvidenceInv
  <1>9. cam'.pc = "wait" => /\ disk'.runs = cam'.state /\ tables'[spec'.name] = "none"
                            /\ Waiting(spec.name, job, exitCode, files[spec.name], measured[spec.name])'
    BY <1>1 DEF EvidenceInv, spec
  <1> QED
    BY <1>1, <1>3, <1>4, <1>6, <1>7, <1>8, <1>9 DEF EvidenceInv, isState, Active

put(fs, n, r, g) == [fs EXCEPT ![n][r] = g]

\* The files of one run are replaced.
LEMMA PutFile ==
    ASSUME NEW fs, NEW ms, Shaped(fs, ms), NEW n \in Names,
           NEW r \in DOMAIN jobNamed(n).runs, NEW g, FileShape(g),
           NEW gs, gs = put(fs, n, r, g)
    PROVE  /\ Shaped(gs, ms) /\ gs[n][r] = g
           /\ \A m \in Names : m # n => gs[m] = fs[m]
           /\ \A i \in DOMAIN jobNamed(n).runs : i # r => gs[n][i] = fs[n][i]
  <1> DEFINE one == [fs[n] EXCEPT ![r] = g]
  <1>1. /\ fs = [m \in Names |-> fs[m]] /\ ms = [m \in Names |-> ms[m]]
        /\ \A m \in Names : /\ fs[m] = [i \in DOMAIN jobNamed(m).runs |-> fs[m][i]]
                            /\ ms[m] = [i \in DOMAIN jobNamed(m).runs |-> ms[m][i]]
                            /\ \A i \in DOMAIN jobNamed(m).runs : FileShape(fs[m][i])
    BY DEF Shaped
  <1>2. /\ one = [i \in DOMAIN jobNamed(n).runs |-> one[i]] /\ one[r] = g
        /\ \A i \in DOMAIN jobNamed(n).runs : i # r => one[i] = fs[n][i]
    BY <1>1
  <1>3. gs = [fs EXCEPT ![n] = one]
    BY DEF put
  <1> HIDE DEF one
  <1>4. /\ gs = [m \in Names |-> gs[m]] /\ gs[n] = one
        /\ \A m \in Names : m # n => gs[m] = fs[m]
    BY <1>1, <1>3
  <1>5. ASSUME NEW m \in Names
        PROVE  /\ gs[m] = [i \in DOMAIN jobNamed(m).runs |-> gs[m][i]]
               /\ \A i \in DOMAIN jobNamed(m).runs : FileShape(gs[m][i])
    <2>1. CASE m = n
      <3>1. \A i \in DOMAIN jobNamed(n).runs : FileShape(one[i])
        BY <1>1, <1>2
      <3> QED
        BY <1>2, <1>4, <2>1, <3>1
    <2>2. CASE m # n
      BY <1>1, <1>4, <2>2
    <2> QED
      BY <2>1, <2>2
  <1> QED
    BY <1>1, <1>2, <1>4, <1>5 DEF Shaped

\* What one run measured is replaced.
LEMMA PutMeasured ==
    ASSUME NEW fs, NEW ms, Shaped(fs, ms), NEW n \in Names,
           NEW r \in DOMAIN jobNamed(n).runs, NEW d,
           NEW hs, hs = put(ms, n, r, d)
    PROVE  /\ Shaped(fs, hs) /\ hs[n][r] = d
           /\ \A m \in Names : m # n => hs[m] = ms[m]
           /\ \A i \in DOMAIN jobNamed(n).runs : i # r => hs[n][i] = ms[n][i]
  <1> DEFINE one == [ms[n] EXCEPT ![r] = d]
  <1>1. /\ fs = [m \in Names |-> fs[m]] /\ ms = [m \in Names |-> ms[m]]
        /\ \A m \in Names : /\ fs[m] = [i \in DOMAIN jobNamed(m).runs |-> fs[m][i]]
                            /\ ms[m] = [i \in DOMAIN jobNamed(m).runs |-> ms[m][i]]
                            /\ \A i \in DOMAIN jobNamed(m).runs : FileShape(fs[m][i])
    BY DEF Shaped
  <1>2. /\ one = [i \in DOMAIN jobNamed(n).runs |-> one[i]] /\ one[r] = d
        /\ \A i \in DOMAIN jobNamed(n).runs : i # r => one[i] = ms[n][i]
    BY <1>1
  <1>3. hs = [ms EXCEPT ![n] = one]
    BY DEF put
  <1> HIDE DEF one
  <1>4. /\ hs = [m \in Names |-> hs[m]] /\ hs[n] = one
        /\ \A m \in Names : m # n => hs[m] = ms[m]
    BY <1>1, <1>3
  <1>5. \A m \in Names : hs[m] = [i \in DOMAIN jobNamed(m).runs |-> hs[m][i]]
    <2> TAKE m \in Names
    <2>1. CASE m = n
      BY <1>2, <1>4, <2>1
    <2>2. CASE m # n
      BY <1>1, <1>4, <2>2
    <2> QED
      BY <2>1, <2>2
  <1> QED
    BY <1>1, <1>2, <1>4, <1>5 DEF Shaped

\* A script writes in the directory of its run only.
OwnOnly ==
    /\ Shaped(files', measured')
    /\ \A n \in Names : n # job.name => files'[n] = files[n] /\ measured'[n] = measured[n]
    /\ \A i \in DOMAIN jobNamed(job.name).runs : i # job.run =>
          /\ files'[job.name][i] = files[job.name][i]
          /\ measured'[job.name][i] = measured[job.name][i]

\* It may write nothing.
LEMMA OwnQuiet ==
    ASSUME EvidenceInv, UNCHANGED <<files, measured>>
    PROVE  OwnOnly
  BY DEF OwnOnly, EvidenceInv

\* The script under way has a directory for its run.
LEMMA OwnPlace ==
    ASSUME JobOK(job)
    PROVE  /\ job.name \in Names
           /\ job.run # Prologue => job.run \in DOMAIN jobNamed(job.name).runs
           /\ \A i \in DOMAIN jobNamed(job.name).runs : i # Prologue
  <1>1. job.name \in Names
    BY DEF JobOK, Names
  <1> QED
    BY <1>1, JobsAssumption DEF JobOK, IsRun, Prologue

\* It writes a file.
LEMMA OwnFile ==
    ASSUME EvidenceInv, JobOK(job), job.run # Prologue, NEW g, FileShape(g),
           files' = [files EXCEPT ![job.name][job.run] = g], measured' = measured
    PROVE  OwnOnly /\ files'[job.name][job.run] = g
  <1> DEFINE gs == files'
  <1>1. job.name \in Names /\ job.run \in DOMAIN jobNamed(job.name).runs
    BY OwnPlace
  <1>2. Shaped(files, measured) /\ gs = put(files, job.name, job.run, g)
    BY DEF EvidenceInv, put
  <1> HIDE DEF gs
  <1>3. /\ Shaped(gs, measured) /\ gs[job.name][job.run] = g
        /\ \A m \in Names : m # job.name => gs[m] = files[m]
        /\ \A i \in DOMAIN jobNamed(job.name).runs :
              i # job.run => gs[job.name][i] = files[job.name][i]
    BY <1>1, <1>2, PutFile
  <1> QED
    BY <1>3 DEF OwnOnly, gs

\* Its client prints a result, and it may write a file with it.
LEMMA OwnMeasured ==
    ASSUME EvidenceInv, JobOK(job), job.run # Prologue, NEW d, NEW g, FileShape(g),
           measured' = [measured EXCEPT ![job.name][job.run] = d],
           \/ files' = [files EXCEPT ![job.name][job.run] = g]
           \/ files' = files
    PROVE  OwnOnly /\ measured'[job.name][job.run] = d
  <1> DEFINE gs == files'
             hs == measured'
  <1>1. job.name \in Names /\ job.run \in DOMAIN jobNamed(job.name).runs
    BY OwnPlace
  <1>2. /\ Shaped(files, measured)
        /\ gs = put(files, job.name, job.run, g) \/ gs = files
        /\ hs = put(measured, job.name, job.run, d)
    BY DEF EvidenceInv, put
  <1> HIDE DEF gs, hs
  <1>3. /\ Shaped(gs, measured)
        /\ \A m \in Names : m # job.name => gs[m] = files[m]
        /\ \A i \in DOMAIN jobNamed(job.name).runs :
              i # job.run => gs[job.name][i] = files[job.name][i]
    <2>1. CASE gs = files
      BY <1>2, <2>1
    <2>2. CASE gs = put(files, job.name, job.run, g)
      BY <1>1, <1>2, <2>2, PutFile
    <2> QED
      BY <1>2, <2>1, <2>2
  <1>4. /\ Shaped(gs, hs) /\ hs[job.name][job.run] = d
        /\ \A m \in Names : m # job.name => hs[m] = measured[m]
        /\ \A i \in DOMAIN jobNamed(job.name).runs :
              i # job.run => hs[job.name][i] = measured[job.name][i]
    BY <1>1, <1>2, <1>3, PutMeasured
  <1> QED
    BY <1>3, <1>4 DEF OwnOnly, gs, hs

\* What the driver waits for goes on within a run.
LEMMA WaitingGoesOn ==
    ASSUME NEW n \in GroupNames, NEW j, j # NoJob, NEW k, k # NoJob, k.run = j.run,
           NEW c, NEW c2, NEW fs, NEW ms, NEW gs, NEW hs, Waiting(n, j, c, fs, ms),
           \A i \in runsOf(n) : i # j.run => gs[i] = fs[i] /\ hs[i] = ms[i],
           \A i \in runsOf(n) : i \in Nat \ {0},
           k.phase # "ending" => j.phase # "ending",
           k.phase = "body" => ~k.failed,
           ~k.failed => ~j.failed,
           ~k.failed /\ k.phase = "ending" /\ j.run # Prologue => gs[j.run].flash # "filled",
           j.run # Prologue => /\ FilesTrue(n, j.run, gs[j.run], hs[j.run])
                               /\ Remaining(k, gs[j.run], hs[j.run])
    PROVE  Waiting(n, k, c2, gs, hs)
  <1>1. \A i \in runsOf(n) : FilesTrue(n, i, gs[i], hs[i])
    BY DEF Waiting, Prologue
  <1>2. k.phase # "ending" => \A i \in runsOf(n) : i > k.run => gs[i] = NoFiles
    BY DEF Waiting
  <1>3. ~k.failed => \A i \in runsOf(n) : gs[i].flash = "filled" => i = k.run /\ k.phase # "ending"
    BY DEF Waiting, Prologue
  <1> QED
    BY <1>1, <1>2, <1>3 DEF Waiting

\* The job of a group that the driver waits for.
LEMMA WaitedFor ==
    ASSUME CampaignInv, EvidenceInv, SweepInv, job # NoJob, cam.pc = "wait"
    PROVE  /\ job.name = spec.name /\ job.name \in GroupNames
           /\ jobNamed(job.name) = group_command(specOf(job.name))
           /\ DOMAIN jobNamed(job.name).runs = runsOf(job.name)
           /\ \A i \in runsOf(job.name) : i \in Nat \ {0}
           /\ job.script = IF specOf(job.name).kind = "kv" THEN "strong" ELSE "http"
           /\ job.run # Prologue => job.run \in runsOf(job.name)
           /\ Waiting(job.name, job, exitCode, files[job.name], measured[job.name])
  <1>1. cam.group \in DOMAIN GROUPS
    BY DEF CampaignInv, Group, Measuring
  <1>2. job.name = spec.name /\ job.name \in GroupNames
    BY <1>1, SpecNow DEF EvidenceInv, JobIsWaitedFor
  <1>3. /\ jobNamed(job.name) = group_command(specOf(job.name))
        /\ DOMAIN jobNamed(job.name).runs = runsOf(job.name)
    BY <1>2, GroupJob
  <1>4. JobOK(job)
    BY DEF SweepInv
  <1>5. job.script = IF specOf(job.name).kind = "kv" THEN "strong" ELSE "http"
    BY <1>3, <1>4 DEF JobOK, group_command
  <1>6. \A i \in runsOf(job.name) : i \in Nat \ {0}
    BY <1>3, <1>4, JobsAssumption DEF JobOK
  <1>7. Waiting(job.name, job, exitCode, files[job.name], measured[job.name])
    BY <1>2 DEF EvidenceInv
  <1> QED
    BY <1>2, <1>3, <1>4, <1>5, <1>6, <1>7, OwnPlace

\* A step within a run.
LEMMA EvidenceStep ==
    ASSUME CampaignInv, EvidenceInv, SweepInv, UNCHANGED campaignVars, job # NoJob,
           OwnOnly, job' # NoJob, job'.name = job.name, job'.run = job.run,
           job.name \in GroupNames => Printed(job.name, measured'[job.name]),
           cam.pc = "wait" =>
             /\ job'.phase # "ending" => job.phase # "ending"
             /\ job'.phase = "body" => ~job'.failed
             /\ ~job'.failed => ~job.failed
             /\ job.run # Prologue =>
                  /\ ~job'.failed /\ job'.phase = "ending" => files'[job.name][job.run].flash # "filled"
                  /\ FilesTrue(job.name, job.run, files'[job.name][job.run], measured'[job.name][job.run])
                  /\ Remaining(job', files'[job.name][job.run], measured'[job.name][job.run])
    PROVE  EvidenceInv'
  <1>1. \A n \in GroupNames : Printed(n, measured'[n])
    <2> TAKE n \in GroupNames
    <2>1. CASE n = job.name
      BY <2>1
    <2>2. CASE n # job.name
      BY <2>2, GroupJob DEF OwnOnly, EvidenceInv
    <2> QED
      BY <2>1, <2>2
  <1>2. ASSUME cam.pc = "wait"
        PROVE  Waiting(spec.name, job', exitCode', files'[spec.name], measured'[spec.name])
    <2> DEFINE fs == files[job.name]
               ms == measured[job.name]
               gs == files'[job.name]
               hs == measured'[job.name]
    <2>1. /\ job.name = spec.name /\ job.name \in GroupNames
          /\ DOMAIN jobNamed(job.name).runs = runsOf(job.name)
          /\ \A i \in runsOf(job.name) : i \in Nat \ {0}
          /\ Waiting(job.name, job, exitCode, fs, ms)
      BY <1>2, WaitedFor
    <2>2. \A i \in runsOf(job.name) : i # job.run => gs[i] = fs[i] /\ hs[i] = ms[i]
      BY <2>1 DEF OwnOnly
    <2>3. /\ job'.phase # "ending" => job.phase # "ending"
          /\ job'.phase = "body" => ~job'.failed
          /\ ~job'.failed => ~job.failed
          /\ ~job'.failed /\ job'.phase = "ending" /\ job.run # Prologue => gs[job.run].flash # "filled"
          /\ job.run # Prologue => /\ FilesTrue(job.name, job.run, gs[job.run], hs[job.run])
                                   /\ Remaining(job', gs[job.run], hs[job.run])
      BY <1>2
    <2> HIDE DEF fs, ms, gs, hs
    <2>4. Waiting(job.name, job', exitCode', gs, hs)
      BY <2>1, <2>2, <2>3, WaitingGoesOn
    <2> QED
      BY <2>1, <2>4 DEF gs, hs
  <1> QED
    BY <1>1, <1>2, EvidenceScript DEF OwnOnly

\* Only containers are started before the first run.
LEMMA InARun ==
    ASSUME JobOK(job), NEW what, AtStep(what), what # "start"
    PROVE  job.run # Prologue
  <1> SUFFICES ASSUME job.run = Prologue PROVE FALSE
    OBVIOUS
  <1>1. stepsNow = <<start("origin")>> \/ stepsNow = <<>>
    BY DEF stepsNow, Steps, prologueSteps
  <1>2. job.at <= Len(stepsNow) /\ job.at \in Nat \ {0} /\ stepsNow[job.at].do # "start"
    BY DEF AtStep, JobOK, IsPlace
  <1>3. CASE stepsNow = <<start("origin")>>
    <2>1. job.at = 1
      BY <1>2, <1>3
    <2>2. <<start("origin")>>[1].do = "start"
      BY DEF start
    <2> QED
      BY <1>2, <1>3, <2>1, <2>2
  <1>4. CASE stepsNow = <<>>
    BY <1>2, <1>4
  <1> QED
    BY <1>1, <1>3, <1>4

\* Where the script of a group stands in a run.
LEMMA InTheBody ==
    ASSUME CampaignInv, EvidenceInv, SweepInv, NEW what, AtStep(what), cam.pc = "wait",
           job.run # Prologue
    PROVE  /\ ~job.failed
           /\ FilesTrue(job.name, job.run, files[job.name][job.run], measured[job.name][job.run])
           /\ Remaining(job, files[job.name][job.run], measured[job.name][job.run])
           /\ Orderly(stepsNow) /\ job.at \in 1..Len(stepsNow)
           /\ tiered(job.name, job.run) /\ job.at = 1 => stepsNow[1] = start("server")
           /\ tiered(job.name, job.run) /\ what # "start"
                  => files[job.name][job.run].flash # "none"
  <1>1. job # NoJob /\ job.phase = "body"
    BY DEF AtStep
  <1>2. JobOK(job)
    BY <1>1 DEF SweepInv
  <1>3. /\ job.script = IF specOf(job.name).kind = "kv" THEN "strong" ELSE "http"
        /\ job.run \in runsOf(job.name)
        /\ Waiting(job.name, job, exitCode, files[job.name], measured[job.name])
    BY <1>1, WaitedFor
  <1>4. /\ ~job.failed
        /\ FilesTrue(job.name, job.run, files[job.name][job.run], measured[job.name][job.run])
        /\ Remaining(job, files[job.name][job.run], measured[job.name][job.run])
    BY <1>1, <1>3 DEF Waiting
  <1>5. job.at \in 1..Len(stepsNow) /\ stepsNow[job.at].do = what
    BY <1>2 DEF AtStep, JobOK, IsPlace
  <1>6. job.script \in {"strong", "http"}
    BY <1>3
  <1>7. job.script = "http" => runOf(job).engine \in {"nginx", "grpc_adapter", "origin_direct"}
    BY <1>2, JobsAssumption DEF JobOK, IsRun, runOf
  <1>8. Orderly(stepsNow) /\ (job.script = "strong" => stepsNow[1] = start("server"))
    BY <1>6, <1>7, StepsInOrder DEF stepsNow
  <1>9. tiered(job.name, job.run) => job.script = "strong"
    BY <1>3 DEF tiered
  <1>10. ASSUME tiered(job.name, job.run), what # "start"
         PROVE  files[job.name][job.run].flash # "none"
    <2>1. stepsNow[1] = start("server")
      BY <1>8, <1>9, <1>10
    <2>2. job.at # 1
      BY <1>5, <1>10, <2>1 DEF start
    <2>3. job.at > 1
      BY <1>5, <2>2
    <2> QED
      BY <1>1, <1>4, <1>10, <2>3 DEF Remaining
  <1> QED
    BY <1>4, <1>5, <1>8, <1>9, <1>10

\* One step further in the body.
LEMMA RemainingAdvances ==
    ASSUME JobOK(job), job.phase = "body", NEW ac, NEW m, NEW fl, NEW g, NEW e,
           job' = Moved(job, job.run, job.at + 1, "body", ac, job.sweep, m, fl),
           m \in {NoResult, e},
           g.result # NoResult => MeasuresNoMore(stepsNow, job.at + 1),
           tiered(job.name, job.run) => g.flash # "none"
    PROVE  Remaining(job', g, e)
  <1>1. /\ job'.name = job.name /\ job'.script = job.script /\ job'.run = job.run
        /\ job'.measured = m /\ job'.at = job.at + 1
    BY DEF Moved
  <1>2. runOf(job') = runOf(job)
    BY <1>1 DEF runOf
  <1>3. stepsOf(job') = stepsNow
    BY <1>1, <1>2 DEF stepsOf, stepsNow
  <1> QED
    BY <1>1, <1>3 DEF Remaining

\* What a script has not to do any more, it has not to do after its next step.
LEMMA NoMoreAfter ==
    ASSUME JobOK(job), NEW s, MeasuresNoMore(s, job.at)
    PROVE  MeasuresNoMore(s, job.at + 1)
  BY DEF JobOK, IsPlace, MeasuresNoMore

\* A step that writes nothing, or a file but neither result nor flash.
LEMMA EvidenceAdvance ==
    ASSUME CampaignInv, EvidenceInv, SweepInv, UNCHANGED campaignVars, NEW what, AtStep(what),
           what # "start", job' = [job EXCEPT !.at = @ + 1], measured' = measured, OwnOnly,
           files'[job.name][job.run].result = files[job.name][job.run].result,
           files'[job.name][job.run].flash = files[job.name][job.run].flash
    PROVE  EvidenceInv'
  <1> DEFINE f == files[job.name][job.run]
             g == files'[job.name][job.run]
             d == measured[job.name][job.run]
  <1>1. job # NoJob /\ job.phase = "body"
    BY DEF AtStep
  <1>2. JobOK(job)
    BY <1>1 DEF SweepInv
  <1>3. job.run # Prologue
    BY <1>2, InARun
  <1>4. job' = Moved(job, job.run, job.at + 1, "body", job.active, job.sweep, job.measured, job.failed)
    BY <1>1, <1>2 DEF JobOK, Moved
  <1>5. /\ job' # NoJob /\ job'.name = job.name /\ job'.run = job.run /\ job'.phase = "body"
        /\ job'.failed = job.failed
    BY <1>4 DEF Moved, NoJob
  <1>6. job.name \in GroupNames => Printed(job.name, measured'[job.name])
    BY DEF EvidenceInv
  <1>7. ASSUME cam.pc = "wait"
        PROVE  /\ ~job'.failed
               /\ FilesTrue(job.name, job.run, g, d) /\ Remaining(job', g, d)
    <2>1. /\ ~job.failed /\ FilesTrue(job.name, job.run, f, d) /\ Remaining(job, f, d)
          /\ tiered(job.name, job.run) => f.flash # "none"
      BY <1>3, <1>7, InTheBody
    <2>2. FilesTrue(job.name, job.run, g, d)
      BY <2>1 DEF FilesTrue
    <2>3. job.measured \in {NoResult, d} /\ (f.result # NoResult => MeasuresNoMore(stepsNow, job.at))
      BY <1>1, <2>1 DEF Remaining, stepsOf, stepsNow
    <2>4. g.result # NoResult => MeasuresNoMore(stepsNow, job.at + 1)
      BY <1>2, <2>3, NoMoreAfter
    <2>5. Remaining(job', g, d)
      BY <1>1, <1>2, <1>4, <2>1, <2>3, <2>4, RemainingAdvances
    <2> QED
      BY <1>5, <2>1, <2>2, <2>5
  <1> QED
    BY <1>1, <1>3, <1>5, <1>6, <1>7, EvidenceStep

setFile(f, field, v) == [f EXCEPT ![field] = v]

\* One field of a run's files is written.
LEMMA OneField ==
    ASSUME NEW f, FileShape(f), NEW v
    PROVE  /\ FileShape(setFile(f, "probe", v))
           /\ setFile(f, "probe", v).result = f.result
           /\ setFile(f, "probe", v).flash = f.flash
           /\ FileShape(setFile(f, "cgroup", v))
           /\ setFile(f, "cgroup", v).result = f.result
           /\ setFile(f, "cgroup", v).flash = f.flash
           /\ FileShape(setFile(f, "error", v))
           /\ setFile(f, "error", v).result = f.result
           /\ setFile(f, "error", v).flash = f.flash
           /\ FileShape(setFile(f, "result", v))
           /\ setFile(f, "result", v).result = v
           /\ setFile(f, "result", v).flash = f.flash
           /\ FileShape(setFile(f, "flash", v))
           /\ setFile(f, "flash", v).result = f.result
           /\ setFile(f, "flash", v).flash = v
  <1>1. /\ setFile(f, "probe", v) = [f EXCEPT !.probe = v]
        /\ setFile(f, "cgroup", v) = [f EXCEPT !.cgroup = v]
        /\ setFile(f, "error", v) = [f EXCEPT !.error = v]
        /\ setFile(f, "result", v) = [f EXCEPT !.result = v]
        /\ setFile(f, "flash", v) = [f EXCEPT !.flash = v]
    BY DEF setFile
  <1>2. /\ FileShape([f EXCEPT !.probe = v])
        /\ [f EXCEPT !.probe = v].result = f.result /\ [f EXCEPT !.probe = v].flash = f.flash
    BY DEF FileShape
  <1>3. /\ FileShape([f EXCEPT !.cgroup = v])
        /\ [f EXCEPT !.cgroup = v].result = f.result /\ [f EXCEPT !.cgroup = v].flash = f.flash
    BY DEF FileShape
  <1>4. /\ FileShape([f EXCEPT !.error = v])
        /\ [f EXCEPT !.error = v].result = f.result /\ [f EXCEPT !.error = v].flash = f.flash
    BY DEF FileShape
  <1>5. /\ FileShape([f EXCEPT !.result = v])
        /\ [f EXCEPT !.result = v].result = v /\ [f EXCEPT !.result = v].flash = f.flash
    BY DEF FileShape
  <1>6. /\ FileShape([f EXCEPT !.flash = v])
        /\ [f EXCEPT !.flash = v].result = f.result /\ [f EXCEPT !.flash = v].flash = v
    BY DEF FileShape
  <1> QED
    BY <1>1, <1>2, <1>3, <1>4, <1>5, <1>6

-----------------------------------------------------------------------------
\* Each step of a script.

\* The files of the run under way.
LEMMA OwnShape ==
    ASSUME EvidenceInv, JobOK(job), job.run # Prologue
    PROVE  FileShape(files[job.name][job.run])
  <1>1. job.name \in Names /\ job.run \in DOMAIN jobNamed(job.name).runs
    BY OwnPlace
  <1> QED
    BY <1>1 DEF EvidenceInv, Shaped

\* Readiness, MEASURE_START and `docker inspect' write nothing.
LEMMA EvidenceWait ==
    ASSUME CampaignInv, EvidenceInv, SweepInv, UNCHANGED campaignVars, Wait
    PROVE  EvidenceInv'
  <1>1. PICK what \in {"ready", "await", "inspect"} : AtStep(what)
    BY DEF Wait
  <1>2. job' = [job EXCEPT !.at = @ + 1] /\ UNCHANGED <<files, measured>>
    BY DEF Wait, Advance
  <1>3. OwnOnly
    BY <1>2, OwnQuiet
  <1> QED
    BY <1>1, <1>2, <1>3, EvidenceAdvance

\* The probe, the cgroup samples and error.txt are files of their own.
LEMMA EvidenceWrites ==
    ASSUME CampaignInv, EvidenceInv, SweepInv, UNCHANGED campaignVars,
           NEW what, AtStep(what), what # "start", Advance, measured' = measured,
           NEW field \in {"probe", "cgroup", "error"}, NEW v, write(field, v)
    PROVE  EvidenceInv'
  <1> DEFINE f == files[job.name][job.run]
             g == setFile(f, field, v)
  <1>1. job # NoJob /\ job' = [job EXCEPT !.at = @ + 1]
    BY DEF AtStep, Advance
  <1>2. JobOK(job) /\ job.run # Prologue
    BY <1>1, InARun DEF SweepInv
  <1>3. FileShape(f)
    BY <1>2, OwnShape
  <1>4. FileShape(g) /\ g.result = f.result /\ g.flash = f.flash
    <2> HIDE DEF f
    <2>1. CASE field = "probe"
      <3>1. g = setFile(f, "probe", v)
        BY <2>1
      <3> HIDE DEF g
      <3> QED
        BY <1>3, <3>1, OneField
    <2>2. CASE field = "cgroup"
      <3>1. g = setFile(f, "cgroup", v)
        BY <2>2
      <3> HIDE DEF g
      <3> QED
        BY <1>3, <3>1, OneField
    <2>3. CASE field = "error"
      <3>1. g = setFile(f, "error", v)
        BY <2>3
      <3> HIDE DEF g
      <3> QED
        BY <1>3, <3>1, OneField
    <2> QED
      BY <2>1, <2>2, <2>3
  <1>5. files' = [files EXCEPT ![job.name][job.run] = g]
    BY DEF write, setFile
  <1> HIDE DEF g
  <1>6. OwnOnly /\ files'[job.name][job.run] = g
    BY <1>2, <1>4, <1>5, OwnFile
  <1> QED
    BY <1>1, <1>4, <1>6, EvidenceAdvance

\* Verify, WriteCgroups and Flag.
LEMMA EvidenceFiles ==
    ASSUME CampaignInv, EvidenceInv, SweepInv, UNCHANGED campaignVars,
           Verify \/ WriteCgroups \/ Flag
    PROVE  EvidenceInv'
  <1>1. CASE Verify
    <2>1. AtStep("verify") /\ write("probe", TRUE) /\ Advance /\ measured' = measured
      BY <1>1 DEF Verify
    <2> QED
      BY <2>1, EvidenceWrites
  <1>2. CASE WriteCgroups
    <2>1. AtStep("cgroup") /\ write("cgroup", TRUE) /\ Advance /\ measured' = measured
      BY <1>2 DEF WriteCgroups
    <2> QED
      BY <2>1, EvidenceWrites
  <1>3. CASE Flag
    <2>1. AtStep("flag") /\ Advance /\ measured' = measured
      BY <1>3 DEF Flag
    <2>2. CASE write("error", "client")
      BY <2>1, <2>2, EvidenceWrites
    <2>3. CASE files' = files
      <3>1. OwnOnly
        BY <2>1, <2>3, OwnQuiet
      <3>2. job' = [job EXCEPT !.at = @ + 1]
        BY <2>1 DEF Advance
      <3> QED
        BY <2>1, <2>3, <3>1, <3>2, EvidenceAdvance
    <2> QED
      BY <1>3, <2>2, <2>3 DEF Flag
  <1> QED
    BY <1>1, <1>2, <1>3

\* The script of a group is one of two, and none of them samples.
LEMMA GroupScript ==
    ASSUME JobOK(job), job.name \in GroupNames
    PROVE  /\ job.script = group_command(specOf(job.name)).script
           /\ job.script \in {"strong", "http"}
           /\ \A r \in runsOf(job.name) : jobNamed(job.name).runs[r] = specOf(job.name).runs[r]
           /\ ~AtStep("sample")
  <1>1. jobNamed(job.name) = group_command(specOf(job.name))
    BY GroupJob
  <1>2. /\ job.script = group_command(specOf(job.name)).script
        /\ job.script \in {"strong", "http"}
    BY <1>1 DEF JobOK, group_command
  <1>3. \A r \in runsOf(job.name) : jobNamed(job.name).runs[r] = specOf(job.name).runs[r]
    BY <1>1 DEF group_command
  <1>4. ASSUME AtStep("sample") PROVE FALSE
    <2>1. job.run # Prologue
      BY <1>4, InARun
    <2>2. job.script = "http" => runOf(job).engine \in {"nginx", "grpc_adapter", "origin_direct"}
      BY <2>1, JobsAssumption DEF JobOK, IsRun, runOf
    <2>3. Orderly(stepsNow)
      BY <1>2, <2>1, <2>2, StepsInOrder DEF stepsNow
    <2>4. job.at \in 1..Len(stepsNow) /\ stepsNow[job.at].do = "sample"
      BY <1>4 DEF AtStep, JobOK, IsPlace
    <2> QED
      BY <2>3, <2>4 DEF Orderly
  <1> QED
    BY <1>2, <1>3, <1>4

\* The client prints its result: there was none of this run.
LEMMA EvidenceMeasure ==
    ASSUME CampaignInv, EvidenceInv, SweepInv, UNCHANGED campaignVars, Measure
    PROVE  EvidenceInv'
  <1> DEFINE f == files[job.name][job.run]
  <1>1. PICK o \in Outcomes(job.script) :
            /\ job' = [job EXCEPT !.at = @ + 1, !.measured = o]
            /\ measured' = [measured EXCEPT ![job.name][job.run] = o]
    BY DEF Measure
  <1>2. AtStep("measure") /\ job # NoJob /\ job.phase = "body" /\ files' = files
    BY DEF Measure, AtStep
  <1>3. JobOK(job) /\ job.run # Prologue
    BY <1>2, InARun DEF SweepInv
  <1>4. OwnOnly /\ measured'[job.name][job.run] = o
    BY <1>1, <1>2, <1>3, OwnShape, OwnMeasured
  <1>5. job' = Moved(job, job.run, job.at + 1, "body", job.active, job.sweep, o, job.failed)
    BY <1>1, <1>2, <1>3 DEF JobOK, Moved
  <1>6. /\ job' # NoJob /\ job'.name = job.name /\ job'.run = job.run /\ job'.phase = "body"
        /\ job'.failed = job.failed
    BY <1>5 DEF Moved, NoJob
  <1>7. ASSUME job.name \in GroupNames PROVE Printed(job.name, measured'[job.name])
    <2>1. Printed(job.name, measured[job.name])
      BY <1>7 DEF EvidenceInv
    <2>2. job.script = group_command(specOf(job.name)).script
      BY <1>3, <1>7, GroupScript
    <2>3. DOMAIN jobNamed(job.name).runs = runsOf(job.name)
      BY <1>7, GroupJob
    <2>4. \A i \in runsOf(job.name) : i # job.run => measured'[job.name][i] = measured[job.name][i]
      BY <1>4, <2>3 DEF OwnOnly
    <2> QED
      BY <1>4, <2>1, <2>2, <2>4 DEF Printed
  <1>8. ASSUME cam.pc = "wait"
        PROVE  ~job.failed /\ FilesTrue(job.name, job.run, f, o) /\ Remaining(job', f, o)
    <2>1. /\ ~job.failed /\ FilesTrue(job.name, job.run, f, measured[job.name][job.run])
          /\ Remaining(job, f, measured[job.name][job.run])
          /\ tiered(job.name, job.run) => f.flash # "none"
          /\ job.at \in 1..Len(stepsNow)
      BY <1>2, <1>3, <1>8, InTheBody
    <2>2. f.result = NoResult
      <3>1. SUFFICES ASSUME f.result # NoResult PROVE FALSE
        OBVIOUS
      <3>2. MeasuresNoMore(stepsNow, job.at)
        BY <1>2, <2>1, <3>1 DEF Remaining, stepsOf, stepsNow
      <3>3. stepsNow[job.at].do = "measure" /\ job.at \in job.at..Len(stepsNow)
        BY <1>2, <2>1 DEF AtStep
      <3> QED
        BY <3>2, <3>3 DEF MeasuresNoMore
    <2>3. FilesTrue(job.name, job.run, f, o)
      BY <2>1, <2>2 DEF FilesTrue, readable
    <2>4. Remaining(job', f, o)
      BY <1>2, <1>3, <1>5, <2>1, <2>2, RemainingAdvances
    <2> QED
      BY <2>1, <2>3, <2>4
  <1> QED
    BY <1>2, <1>4, <1>6, <1>7, <1>8, EvidenceStep

\* result.json is written, after the measurement and before nothing that measures.
LEMMA EvidenceRecord ==
    ASSUME CampaignInv, EvidenceInv, SweepInv, UNCHANGED campaignVars, Record
    PROVE  EvidenceInv'
  <1> DEFINE f == files[job.name][job.run]
             g == setFile(f, "result", job.measured)
             d == measured[job.name][job.run]
  <1>1. /\ AtStep("record") /\ job # NoJob /\ job.phase = "body" /\ measured' = measured
        /\ job' = [job EXCEPT !.at = @ + 1]
    BY DEF Record, AtStep, Advance
  <1>2. JobOK(job) /\ job.run # Prologue
    BY <1>1, InARun DEF SweepInv
  <1>3. FileShape(f)
    BY <1>2, OwnShape
  <1>4. FileShape(g) /\ g.result = job.measured /\ g.flash = f.flash
    <2> HIDE DEF f
    <2> QED
      BY <1>3, OneField
  <1>5. files' = [files EXCEPT ![job.name][job.run] = g]
    BY DEF Record, write, setFile
  <1> HIDE DEF g
  <1>6. OwnOnly /\ files'[job.name][job.run] = g
    BY <1>1, <1>2, <1>4, <1>5, OwnFile
  <1>7. job' = Moved(job, job.run, job.at + 1, "body", job.active, job.sweep, job.measured, job.failed)
    BY <1>1, <1>2 DEF JobOK, Moved
  <1>8. /\ job' # NoJob /\ job'.name = job.name /\ job'.run = job.run /\ job'.phase = "body"
        /\ job'.failed = job.failed
    BY <1>7 DEF Moved, NoJob
  <1>9. job.name \in GroupNames => Printed(job.name, measured'[job.name])
    BY <1>1 DEF EvidenceInv
  <1>10. ASSUME cam.pc = "wait"
         PROVE  ~job.failed /\ FilesTrue(job.name, job.run, g, d) /\ Remaining(job', g, d)
    <2>1. /\ ~job.failed /\ FilesTrue(job.name, job.run, f, d)
          /\ Remaining(job, f, d) /\ Orderly(stepsNow)
          /\ tiered(job.name, job.run) => f.flash # "none"
          /\ job.at \in 1..Len(stepsNow)
      BY <1>1, <1>2, <1>10, InTheBody
    <2>2. job.measured \in {NoResult, d}
      BY <2>1 DEF Remaining
    <2>3. FilesTrue(job.name, job.run, g, d)
      BY <1>4, <2>1, <2>2 DEF FilesTrue, readable
    <2>4. MeasuresNoMore(stepsNow, job.at + 1)
      <3>1. stepsNow[job.at].do = "record"
        BY <1>1 DEF AtStep
      <3> QED
        BY <2>1, <3>1 DEF Orderly, MeasuresNoMore
    <2>5. Remaining(job', g, d)
      BY <1>1, <1>2, <1>4, <1>7, <2>1, <2>2, <2>4, RemainingAdvances
    <2> QED
      BY <2>1, <2>3, <2>5
  <1> QED
    BY <1>1, <1>6, <1>8, <1>9, <1>10, EvidenceStep

\* Only the first run_http samples, which measures no group.
LEMMA EvidenceSample ==
    ASSUME CampaignInv, EvidenceInv, SweepInv, UNCHANGED campaignVars, Sample
    PROVE  EvidenceInv'
  <1> DEFINE f == files[job.name][job.run]
  <1>1. /\ AtStep("sample") /\ job # NoJob /\ job.phase = "body"
        /\ job' = [job EXCEPT !.at = @ + 1]
    BY DEF Sample, AtStep, Advance
  <1>2. JobOK(job) /\ job.run # Prologue
    BY <1>1, InARun DEF SweepInv
  <1>3. job.name \notin GroupNames /\ cam.pc # "wait"
    BY <1>1, <1>2, GroupScript, WaitedFor
  <1>4. FileShape(f)
    BY <1>2, OwnShape
  <1>5. OwnOnly
    <2>1. ASSUME NEW o, write("result", o), measured' = [measured EXCEPT ![job.name][job.run] = o]
          PROVE  OwnOnly
      <3> DEFINE g == setFile(f, "result", o)
      <3>1. FileShape(g)
        <4> HIDE DEF f
        <4> QED
          BY <1>4, OneField
      <3>2. files' = [files EXCEPT ![job.name][job.run] = g]
        BY <2>1 DEF write, setFile
      <3> HIDE DEF g
      <3> QED
        BY <1>2, <2>1, <3>1, <3>2, OwnMeasured
    <2>2. ASSUME write("error", "client"), measured' = measured
          PROVE  OwnOnly
      <3> DEFINE g == setFile(f, "error", "client")
      <3>1. FileShape(g)
        <4> HIDE DEF f
        <4> QED
          BY <1>4, OneField
      <3>2. files' = [files EXCEPT ![job.name][job.run] = g]
        BY <2>2 DEF write, setFile
      <3> HIDE DEF g
      <3> QED
        BY <1>2, <2>2, <3>1, <3>2, OwnFile
    <2> QED
      BY <2>1, <2>2 DEF Sample
  <1>6. job' = Moved(job, job.run, job.at + 1, "body", job.active, job.sweep, job.measured, job.failed)
    BY <1>1, <1>2 DEF JobOK, Moved
  <1>7. job' # NoJob /\ job'.name = job.name /\ job'.run = job.run
    BY <1>6 DEF Moved, NoJob
  <1> QED
    BY <1>1, <1>3, <1>5, <1>7, EvidenceStep

\* To write what is there changes nothing.
LEMMA PutSame ==
    ASSUME NEW fs, NEW ms, Shaped(fs, ms), NEW n \in Names, NEW r \in DOMAIN jobNamed(n).runs
    PROVE  fs = put(fs, n, r, fs[n][r])
  <1>1. fs = [m \in Names |-> fs[m]] /\ fs[n] = [i \in DOMAIN jobNamed(n).runs |-> fs[n][i]]
    BY DEF Shaped
  <1>2. fs[n] = [fs[n] EXCEPT ![r] = fs[n][r]]
    BY <1>1
  <1>3. fs = [fs EXCEPT ![n] = [fs[n] EXCEPT ![r] = fs[n][r]]]
    BY <1>1, <1>2
  <1> QED
    BY <1>3 DEF put

withErrorIn(fs, n, r, v) == [fs EXCEPT ![n][r].error = v]

\* One file of a run after another.
LEMMA PutTwice ==
    ASSUME NEW fs, NEW ms, Shaped(fs, ms), NEW n \in Names,
           NEW r \in DOMAIN jobNamed(n).runs, NEW g, FileShape(g), NEW v
    PROVE  withErrorIn(put(fs, n, r, g), n, r, v) = put(fs, n, r, setFile(g, "error", v))
  <1> DEFINE gs == put(fs, n, r, g)
             one == [fs[n] EXCEPT ![r] = g]
             two == [fs[n] EXCEPT ![r] = setFile(g, "error", v)]
  <1>1. fs = [m \in Names |-> fs[m]] /\ fs[n] = [i \in DOMAIN jobNamed(n).runs |-> fs[n][i]]
    BY DEF Shaped
  <1>3. gs = [fs EXCEPT ![n] = one] /\ put(fs, n, r, setFile(g, "error", v)) = [fs EXCEPT ![n] = two]
    BY DEF put
  <1>4. one[r] = g /\ two = [one EXCEPT ![r] = setFile(one[r], "error", v)]
    BY <1>1
  <1>5. setFile(one[r], "error", v) = [one[r] EXCEPT !.error = v]
    BY DEF setFile
  <1>6. [gs EXCEPT ![n][r].error = v] = [gs EXCEPT ![n] = [gs[n] EXCEPT ![r] = [gs[n][r] EXCEPT !.error = v]]]
    OBVIOUS
  <1> HIDE DEF gs, one, two
  <1>7. gs[n] = one
    BY <1>1, <1>3
  <1>8. [gs EXCEPT ![n][r].error = v] = [gs EXCEPT ![n] = two]
    BY <1>4, <1>5, <1>6, <1>7
  <1>9. [gs EXCEPT ![n] = two] = [fs EXCEPT ![n] = two]
    BY <1>1, <1>3
  <1> QED
    BY <1>3, <1>8, <1>9 DEF gs, withErrorIn

\* An exception leaves what the run had written, with error.txt when it is caught.
LEMMA OwnError ==
    ASSUME EvidenceInv, JobOK(job), job.run # Prologue, NEW g, FileShape(g), NEW fs,
           fs = put(files, job.name, job.run, g), files' \in {withError(fs), fs},
           measured' = measured
    PROVE  /\ OwnOnly
           /\ files'[job.name][job.run].result = g.result
           /\ files'[job.name][job.run].flash = g.flash
  <1>1. job.name \in Names /\ job.run \in DOMAIN jobNamed(job.name).runs
    BY OwnPlace
  <1>2. Shaped(files, measured)
    BY DEF EvidenceInv
  <1>3. CASE caught(job.script, job.run) /\ files' = withError(fs)
    <2> DEFINE h == setFile(g, "error", "raised")
    <2>1. files' = withErrorIn(put(files, job.name, job.run, g), job.name, job.run, "raised")
      BY <1>3 DEF withError, withErrorIn
    <2>2. files' = put(files, job.name, job.run, h)
      BY <1>1, <1>2, <2>1, PutTwice
    <2>3. FileShape(h) /\ h.result = g.result /\ h.flash = g.flash
      BY OneField
    <2> HIDE DEF h
    <2>4. files' = [files EXCEPT ![job.name][job.run] = h]
      BY <2>2 DEF put
    <2> QED
      BY <2>3, <2>4, OwnFile
  <1>4. CASE ~caught(job.script, job.run) \/ files' = fs
    <2>1. files' = [files EXCEPT ![job.name][job.run] = g]
      BY <1>4 DEF withError, put
    <2> QED
      BY <2>1, OwnFile
  <1> QED
    BY <1>3, <1>4

\* setup has made flash/ of a run with a file tier.
LEMMA StartFiles ==
    ASSUME EvidenceInv, JobOK(job), job.run # Prologue
    PROVE  \E g : /\ FileShape(g) /\ withFlash = put(files, job.name, job.run, g)
                  /\ g.result = files[job.name][job.run].result
                  /\ IF runOf(job).engine \in FILE_TIER_ENGINES THEN g.flash = "filled"
                     ELSE g.flash = files[job.name][job.run].flash
  <1> DEFINE f == files[job.name][job.run]
  <1>1. FileShape(f)
    BY OwnShape
  <1>2. job.name \in Names /\ job.run \in DOMAIN jobNamed(job.name).runs
    BY OwnPlace
  <1>3. Shaped(files, measured)
    BY DEF EvidenceInv
  <1>4. CASE runOf(job).engine \in FILE_TIER_ENGINES
    <2> DEFINE g == setFile(f, "flash", "filled")
    <2>1. FileShape(g) /\ g.result = f.result /\ g.flash = "filled"
      <3> HIDE DEF f
      <3> QED
        BY <1>1, OneField
    <2>2. withFlash = put(files, job.name, job.run, g)
      BY <1>4 DEF withFlash, put, setFile
    <2> HIDE DEF g
    <2> QED
      BY <1>4, <2>1, <2>2
  <1>5. CASE runOf(job).engine \notin FILE_TIER_ENGINES
    <2>1. files = put(files, job.name, job.run, f)
      BY <1>1, <1>2, <1>3, PutSame
    <2> QED
      BY <1>1, <1>5, <2>1 DEF withFlash
  <1> QED
    BY <1>4, <1>5

\* A file tier that is filled is one of a group of run_strong.
LEMMA TierIsTiered ==
    ASSUME CampaignInv, EvidenceInv, SweepInv, job # NoJob, cam.pc = "wait", job.run # Prologue
    PROVE  /\ runOf(job).engine \in FILE_TIER_ENGINES <=> tiered(job.name, job.run)
           /\ tiered(job.name, job.run) => job.script = "strong"
  <1>1. /\ job.name \in GroupNames /\ job.run \in runsOf(job.name) /\ JobOK(job)
        /\ job.script = IF specOf(job.name).kind = "kv" THEN "strong" ELSE "http"
    BY WaitedFor DEF SweepInv
  <1>2. runOf(job) = specOf(job.name).runs[job.run]
    BY <1>1, GroupScript DEF runOf
  <1>3. job.script = "http" => runOf(job).engine \in {"nginx", "grpc_adapter", "origin_direct"}
    BY <1>1, JobsAssumption DEF JobOK, IsRun, runOf
  <1> QED
    BY <1>1, <1>2, <1>3 DEF tiered, FILE_TIER_ENGINES

\* Before the first run no file is written: there is no directory yet.
LEMMA NothingBefore ==
    ASSUME job.run = Prologue
    PROVE  withFlash = files /\ \A fs : withError(fs) = fs
  BY DEF withFlash, withError, caught, runOf, FILE_TIER_ENGINES

\* What an exception has to show.
LEMMA EvidenceRaise ==
    ASSUME CampaignInv, EvidenceInv, SweepInv, UNCHANGED campaignVars, NEW what, AtStep(what),
           NEW h, Raise(h), OwnOnly, measured' = measured,
           cam.pc = "wait" /\ job.run # Prologue =>
               FilesTrue(job.name, job.run, files'[job.name][job.run], measured[job.name][job.run])
    PROVE  EvidenceInv'
  <1>1. job # NoJob /\ job.phase = "body" /\ JobOK(job)
    BY DEF AtStep, SweepInv
  <1>2. job.name \in GroupNames => Printed(job.name, measured'[job.name])
    BY DEF EvidenceInv
  <1>3. \/ job' = Moved(job, job.run, job.at, "sweep", job.active,
                       sweepOf(job.script, job.run, job.active), job.measured, ~h)
        \/ job' = Moved(job, job.run, job.at, "ending", job.active,
                       lastSweep(job.script, job.active), job.measured, TRUE)
    <2>1. CASE caught(job.script, job.run)
      BY <1>1, <2>1 DEF Raise, JobOK, Moved
    <2>2. CASE ~caught(job.script, job.run)
      BY <1>1, <2>2 DEF Raise, JobOK, Moved
    <2> QED
      BY <2>1, <2>2
  <1>4. /\ job' # NoJob /\ job'.name = job.name /\ job'.run = job.run
        /\ job'.phase \in {"sweep", "ending"} /\ job'.measured = job.measured
        /\ job'.phase = "ending" => job'.failed
    BY <1>3 DEF Moved, NoJob
  <1>5. ASSUME cam.pc = "wait"
        PROVE  /\ ~job.failed
               /\ job.run # Prologue =>
                    Remaining(job', files'[job.name][job.run], measured[job.name][job.run])
    <2>1. Waiting(job.name, job, exitCode, files[job.name], measured[job.name])
      BY <1>1, <1>5, WaitedFor
    <2>2. ~job.failed
      BY <1>1, <2>1 DEF Waiting
    <2>3. job.run # Prologue => job.measured \in {NoResult, measured[job.name][job.run]}
      BY <1>1, <2>1 DEF Waiting, Remaining
    <2> QED
      BY <1>3, <1>4, <2>2, <2>3 DEF Remaining
  <1> QED
    BY <1>1, <1>2, <1>3, <1>4, <1>5, EvidenceStep

\* A start that fails.
LEMMA EvidenceStartFails ==
    ASSUME CampaignInv, EvidenceInv, SweepInv, UNCHANGED campaignVars, AtStep("start"),
           NEW h, Raise(h), measured' = measured,
           NEW fs, fs \in {withFlash, files}, files' \in {withError(fs), fs}
    PROVE  EvidenceInv'
  <1> DEFINE f == files[job.name][job.run]
             d == measured[job.name][job.run]
  <1>1. job # NoJob /\ JobOK(job)
    BY DEF AtStep, SweepInv
  <1>2. CASE job.run = Prologue
    <2>1. files' = files
      BY <1>2, NothingBefore
    <2>2. OwnOnly
      BY <2>1, OwnQuiet
    <2> QED
      BY <1>2, <2>2, EvidenceRaise
  <1>3. CASE job.run # Prologue
    <2>1. FileShape(f)
      BY <1>1, <1>3, OwnShape
    <2>2. files = put(files, job.name, job.run, f)
      BY <1>1, <2>1, <1>3, OwnPlace, PutSame DEF EvidenceInv
    <2>3. PICK g : /\ FileShape(g) /\ fs = put(files, job.name, job.run, g)
                   /\ g.result = f.result
                   /\ \/ g.flash = f.flash
                      \/ g.flash = "filled" /\ runOf(job).engine \in FILE_TIER_ENGINES
      <3>1. CASE fs = withFlash
        <4> HIDE DEF f
        <4> QED
          BY <1>1, <1>3, <3>1, StartFiles DEF f
      <3>2. CASE fs = files
        BY <2>1, <2>2, <3>2
      <3> QED
        BY <3>1, <3>2
    <2>4. /\ OwnOnly /\ files'[job.name][job.run].result = g.result
          /\ files'[job.name][job.run].flash = g.flash
      BY <1>1, <1>3, <2>3, OwnError
    <2>5. ASSUME cam.pc = "wait"
          PROVE  FilesTrue(job.name, job.run, files'[job.name][job.run], d)
      <3>1. FilesTrue(job.name, job.run, f, d)
        BY <1>3, <2>5, InTheBody
      <3>2. runOf(job).engine \in FILE_TIER_ENGINES => tiered(job.name, job.run)
        BY <1>1, <1>3, <2>5, TierIsTiered
      <3> QED
        BY <2>3, <2>4, <3>1, <3>2 DEF FilesTrue
    <2> QED
      BY <2>4, <2>5, EvidenceRaise
  <1> QED
    BY <1>2, <1>3

\* A later step raises; writing result.json may have stopped half-way.
LEMMA EvidenceStepRaises ==
    ASSUME CampaignInv, EvidenceInv, SweepInv, UNCHANGED campaignVars,
           NEW what, AtStep(what), what # "start", NEW h, Raise(h), measured' = measured,
           NEW fs, fs \in {files, [files EXCEPT ![job.name][job.run].result = Torn]},
           files' \in {withError(fs), fs}
    PROVE  EvidenceInv'
  <1> DEFINE f == files[job.name][job.run]
             d == measured[job.name][job.run]
  <1>2. job # NoJob /\ JobOK(job) /\ job.run # Prologue
    BY InARun DEF AtStep, SweepInv
  <1>4. FileShape(f)
    BY <1>2, OwnShape
  <1>5. files = put(files, job.name, job.run, f)
    BY <1>2, <1>4, OwnPlace, PutSame DEF EvidenceInv
  <1>6. PICK g : /\ FileShape(g) /\ fs = put(files, job.name, job.run, g)
                 /\ g.result \in {f.result, Torn} /\ g.flash = f.flash
    <2>1. CASE fs = files
      BY <1>4, <1>5, <2>1
    <2>2. CASE fs = [files EXCEPT ![job.name][job.run].result = Torn]
      <3> DEFINE k == setFile(f, "result", Torn)
      <3>1. FileShape(k) /\ k.result = Torn /\ k.flash = f.flash
        <4> HIDE DEF f
        <4> QED
          BY <1>4, OneField
      <3>2. fs = put(files, job.name, job.run, k)
        BY <2>2 DEF put, setFile
      <3> HIDE DEF k
      <3> QED
        BY <3>1, <3>2
    <2> QED
      BY <2>1, <2>2
  <1>7. /\ OwnOnly /\ files'[job.name][job.run].result = g.result
        /\ files'[job.name][job.run].flash = g.flash
    BY <1>2, <1>6, OwnError
  <1>8. ASSUME cam.pc = "wait"
        PROVE  FilesTrue(job.name, job.run, files'[job.name][job.run], d)
    <2>1. /\ FilesTrue(job.name, job.run, f, d)
          /\ tiered(job.name, job.run) => f.flash # "none"
      BY <1>2, <1>8, InTheBody
    <2> QED
      BY <1>6, <1>7, <2>1 DEF FilesTrue, readable
  <1> QED
    BY <1>7, <1>8, EvidenceRaise

\* The script goes on as it is, or has done nothing but raise.
LEMMA EvidenceHelper ==
    ASSUME CampaignInv, EvidenceInv, SweepInv, UNCHANGED campaignVars, HelperOutlives
    PROVE  EvidenceInv'
  <1>1. PICK what : AtStep(what) /\ what # "start"
    BY DEF HelperOutlives, runsHelper
  <1>2. job # NoJob /\ JobOK(job) /\ job.run # Prologue
    BY <1>1, InARun DEF AtStep, SweepInv
  <1>3. measured' = measured
    BY DEF HelperOutlives
  <1>4. CASE job' = job /\ files' = files
    <2>1. OwnOnly
      BY <1>3, <1>4, OwnQuiet
    <2>2. job.name \in GroupNames => Printed(job.name, measured'[job.name])
      BY <1>3 DEF EvidenceInv
    <2>3. cam.pc = "wait" =>
            /\ ~job.failed
            /\ FilesTrue(job.name, job.run, files[job.name][job.run], measured[job.name][job.run])
            /\ Remaining(job, files[job.name][job.run], measured[job.name][job.run])
      BY <1>1, <1>2, InTheBody
    <2>4. job.phase = "body"
      BY <1>1 DEF AtStep
    <2> QED
      BY <1>2, <1>3, <1>4, <2>1, <2>2, <2>3, <2>4, EvidenceStep
  <1>5. CASE \E h \in BOOLEAN : Thrown(files, h)
    <2>1. PICK h : Raise(h) /\ files' \in {withError(files), files}
      BY <1>5 DEF Thrown
    <2> QED
      BY <1>1, <1>3, <2>1, EvidenceStepRaises
  <1> QED
    BY <1>4, <1>5 DEF HelperOutlives

\* A container is started; with the server of a file tier its directory is made.
LEMMA EvidenceStart ==
    ASSUME CampaignInv, EvidenceInv, SweepInv, UNCHANGED campaignVars, StartContainer
    PROVE  EvidenceInv'
  <1> DEFINE f == files[job.name][job.run]
             g == files'[job.name][job.run]
             d == measured[job.name][job.run]
             ac == IF job.script = "http" /\ role = "origin" THEN job.active
                   ELSE job.active \cup {role}
  <1>1. /\ AtStep("start") /\ job # NoJob /\ JobOK(job) /\ job.phase = "body"
        /\ measured' = measured /\ files' = IF role = "server" THEN withFlash ELSE files
    BY DEF StartContainer, AtStep, SweepInv
  <1>2. job' = Moved(job, job.run, job.at + 1, "body", ac, job.sweep, job.measured, job.failed)
    BY <1>1 DEF StartContainer, JobOK, Moved
  <1> HIDE DEF ac
  <1>3. /\ job' # NoJob /\ job'.name = job.name /\ job'.run = job.run /\ job'.phase = "body"
        /\ job'.failed = job.failed
    BY <1>2 DEF Moved, NoJob
  <1>4. job.name \in GroupNames => Printed(job.name, measured'[job.name])
    BY <1>1 DEF EvidenceInv
  <1>5. CASE job.run = Prologue
    <2>1. files' = files
      BY <1>1, <1>5, NothingBefore
    <2>2. OwnOnly
      BY <1>1, <2>1, OwnQuiet
    <2>3. cam.pc = "wait" => ~job.failed
      BY <1>1, WaitedFor DEF Waiting
    <2> QED
      BY <1>1, <1>3, <1>4, <1>5, <2>2, <2>3, EvidenceStep
  <1>6. CASE job.run # Prologue
    <2>1. /\ OwnOnly /\ g.result = f.result
          /\ \/ g.flash = f.flash /\ (role = "server" => runOf(job).engine \notin FILE_TIER_ENGINES)
             \/ g.flash = "filled" /\ runOf(job).engine \in FILE_TIER_ENGINES
      <3>1. CASE role = "server"
        <4>1. PICK h : /\ FileShape(h) /\ withFlash = put(files, job.name, job.run, h)
                       /\ h.result = files[job.name][job.run].result
                       /\ IF runOf(job).engine \in FILE_TIER_ENGINES THEN h.flash = "filled"
                          ELSE h.flash = files[job.name][job.run].flash
          BY <1>1, <1>6, StartFiles
        <4>2. files' = [files EXCEPT ![job.name][job.run] = h]
          BY <1>1, <3>1, <4>1 DEF put
        <4>3. OwnOnly /\ g = h
          BY <1>1, <1>6, <4>1, <4>2, OwnFile
        <4> QED
          BY <4>1, <4>3
      <3>2. CASE role # "server"
        <4>1. OwnOnly
          BY <1>1, <3>2, OwnQuiet
        <4> QED
          BY <1>1, <3>2, <4>1
      <3> QED
        BY <3>1, <3>2
    <2>2. ASSUME cam.pc = "wait"
          PROVE  ~job.failed /\ FilesTrue(job.name, job.run, g, d) /\ Remaining(job', g, d)
      <3>1. /\ ~job.failed /\ FilesTrue(job.name, job.run, f, d) /\ Remaining(job, f, d)
            /\ tiered(job.name, job.run) /\ job.at = 1 => stepsNow[1] = start("server")
            /\ job.at \in 1..Len(stepsNow)
        BY <1>1, <1>6, <2>2, InTheBody
      <3>2. runOf(job).engine \in FILE_TIER_ENGINES <=> tiered(job.name, job.run)
        BY <1>1, <1>6, <2>2, TierIsTiered
      <3>3. FilesTrue(job.name, job.run, g, d)
        BY <2>1, <3>1, <3>2 DEF FilesTrue
      <3>4. tiered(job.name, job.run) => g.flash # "none"
        <4>1. SUFFICES ASSUME tiered(job.name, job.run) PROVE g.flash # "none"
          OBVIOUS
        <4>2. CASE job.at = 1
          <5>1. role = "server"
            BY <3>1, <4>1, <4>2 DEF role, start
          <5> QED
            BY <2>1, <3>2, <4>1, <5>1
        <4>3. CASE job.at # 1
          <5>1. f.flash # "none"
            BY <1>1, <3>1, <4>1, <4>3 DEF Remaining
          <5> QED
            BY <2>1, <5>1
        <4> QED
          BY <4>2, <4>3
      <3>5. g.result # NoResult => MeasuresNoMore(stepsNow, job.at + 1)
        <4>1. g.result # NoResult => MeasuresNoMore(stepsNow, job.at)
          BY <1>1, <2>1, <3>1 DEF Remaining, stepsOf, stepsNow
        <4> QED
          BY <1>1, <4>1, NoMoreAfter
      <3>6. job.measured \in {NoResult, d}
        BY <3>1 DEF Remaining
      <3>7. Remaining(job', g, d)
        BY <1>1, <1>2, <3>4, <3>5, <3>6, RemainingAdvances
      <3> QED
        BY <3>1, <3>3, <3>7
    <2> QED
      BY <1>1, <1>3, <1>4, <2>1, <2>2, EvidenceStep
  <1> QED
    BY <1>5, <1>6

\* A step of the sweep, or into it, writes nothing.
LEMMA EvidenceSweep ==
    ASSUME CampaignInv, EvidenceInv, SweepInv, UNCHANGED campaignVars, job # NoJob,
           UNCHANGED <<files, measured>>, job' # NoJob, job'.name = job.name,
           job'.run = job.run, job'.measured = job.measured, job'.phase # "body",
           job'.phase # "ending" => job.phase # "ending",
           ~job'.failed => ~job.failed,
           job'.phase = "ending" => job'.failed \/ job.phase = "ending"
    PROVE  EvidenceInv'
  <1>1. OwnOnly
    BY OwnQuiet
  <1>2. job.name \in GroupNames => Printed(job.name, measured'[job.name])
    BY DEF EvidenceInv
  <1>3. ASSUME cam.pc = "wait"
        PROVE  /\ job.run # Prologue =>
                    /\ ~job'.failed /\ job'.phase = "ending" => files'[job.name][job.run].flash # "filled"
                    /\ FilesTrue(job.name, job.run, files'[job.name][job.run], measured'[job.name][job.run])
                    /\ Remaining(job', files'[job.name][job.run], measured'[job.name][job.run])
    <2>1. /\ Waiting(job.name, job, exitCode, files[job.name], measured[job.name])
          /\ job.run # Prologue => job.run \in runsOf(job.name)
      BY <1>3, WaitedFor
    <2>4. ASSUME job.run # Prologue
          PROVE  /\ ~job'.failed /\ job'.phase = "ending" => files[job.name][job.run].flash # "filled"
                 /\ FilesTrue(job.name, job.run, files[job.name][job.run], measured[job.name][job.run])
                 /\ job.measured \in {NoResult, measured[job.name][job.run]}
      BY <2>1, <2>4 DEF Waiting, Remaining
    <2> QED
      BY <2>4 DEF Remaining
  <1> QED
    BY <1>1, <1>2, <1>3, EvidenceStep

\* The end of the body, and each way in which a container is dealt with.
LEMMA EvidenceSweeps ==
    ASSUME CampaignInv, EvidenceInv, SweepInv, UNCHANGED campaignVars,
           EndBody \/ CleanUp \/ StopFails \/ SweepRaises
    PROVE  EvidenceInv'
  <1>1. job # NoJob /\ UNCHANGED <<files, measured>>
    BY DEF EndBody, CleanUp, StopFails, SweepRaises, Sweeping
  <1>2. JobOK(job)
    BY <1>1 DEF SweepInv
  <1>3. CASE EndBody
    <2>1. job' = Moved(job, job.run, job.at, "sweep", job.active,
                       sweepOf(job.script, job.run, job.active), job.measured, job.failed)
      BY <1>2, <1>3 DEF EndBody, JobOK, Moved
    <2>2. /\ job' # NoJob /\ job'.name = job.name /\ job'.run = job.run
          /\ job'.measured = job.measured /\ job'.phase = "sweep" /\ job'.failed = job.failed
          /\ job.phase = "body"
      BY <1>3, <2>1 DEF EndBody, Moved, NoJob
    <2> QED
      BY <1>1, <2>2, EvidenceSweep
  <1>4. CASE CleanUp \/ StopFails
    <2>1. job' = sweepRest /\ job.phase \in {"sweep", "ending"}
      BY <1>4 DEF CleanUp, StopFails, Sweeping
    <2>2. job' = Moved(job, job.run, job.at, job.phase, job.active \ {latest(job.sweep)},
                       job.sweep \ {latest(job.sweep)}, job.measured, job.failed)
      BY <1>2, <2>1 DEF sweepRest, JobOK, Moved
    <2>3. /\ job' # NoJob /\ job'.name = job.name /\ job'.run = job.run
          /\ job'.measured = job.measured /\ job'.phase = job.phase /\ job'.failed = job.failed
      BY <2>2 DEF Moved, NoJob
    <2> QED
      BY <1>1, <2>1, <2>3, EvidenceSweep
  <1>5. CASE SweepRaises
    <2>1. job' = Moved(job, job.run, job.at, "ending", job.active,
                       lastSweep(job.script, job.active), job.measured, TRUE)
      BY <1>2, <1>5 DEF SweepRaises, JobOK, Moved
    <2>2. /\ job' # NoJob /\ job'.name = job.name /\ job'.run = job.run
          /\ job'.measured = job.measured /\ job'.phase = "ending" /\ job'.failed
      BY <2>1 DEF Moved, NoJob
    <2> QED
      BY <1>1, <2>2, EvidenceSweep
  <1> QED
    BY <1>3, <1>4, <1>5

\* When a run is over the size of its file is written down.
LEMMA OwnFlash ==
    ASSUME CampaignInv, EvidenceInv, SweepInv, job # NoJob, record_flash_usage,
           measured' = measured
    PROVE  /\ OwnOnly
           /\ cam.pc = "wait" /\ job.run # Prologue =>
                /\ FilesTrue(job.name, job.run, files'[job.name][job.run], measured[job.name][job.run])
                /\ files'[job.name][job.run].flash # "filled"
  <1> DEFINE f == files[job.name][job.run]
             g == setFile(f, "flash", "recorded")
             filled == job.run # Prologue /\ job.script = "strong" /\ f.flash = "filled"
  <1>1. JobOK(job)
    BY DEF SweepInv
  <1>2. cam.pc = "wait" /\ job.run # Prologue =>
            FilesTrue(job.name, job.run, f, measured[job.name][job.run])
    BY WaitedFor DEF Waiting
  <1>3. CASE filled
    <2>1. FileShape(f)
      BY <1>1, <1>3, OwnShape
    <2>2. FileShape(g) /\ g.result = f.result /\ g.flash = "recorded"
      <3> HIDE DEF f
      <3> QED
        BY <2>1, OneField
    <2>3. files' = [files EXCEPT ![job.name][job.run] = g]
      BY <1>3 DEF record_flash_usage, write, setFile
    <2> HIDE DEF g
    <2>4. OwnOnly /\ files'[job.name][job.run] = g
      BY <1>1, <1>3, <2>2, <2>3, OwnFile
    <2> QED
      BY <1>2, <1>3, <2>2, <2>4 DEF FilesTrue
  <1>4. CASE ~filled
    <2>1. files' = files
      BY <1>4 DEF record_flash_usage
    <2>2. OwnOnly
      BY <2>1, OwnQuiet
    <2>3. ASSUME cam.pc = "wait", job.run # Prologue PROVE f.flash # "filled"
      <3>1. tiered(job.name, job.run) => job.script = "strong"
        BY <2>3, TierIsTiered
      <3>2. f.flash = "filled" => tiered(job.name, job.run)
        BY <1>2, <2>3 DEF FilesTrue
      <3> QED
        BY <1>4, <2>3, <3>1, <3>2
    <2> QED
      BY <1>2, <2>1, <2>2, <2>3
  <1> QED
    BY <1>3, <1>4

\* The schedule is over: nothing is left filled.
LEMMA EvidenceScheduleOver ==
    ASSUME CampaignInv, EvidenceInv, SweepInv, UNCHANGED campaignVars, ScheduleOver
    PROVE  EvidenceInv'
  <1>1. /\ job # NoJob /\ job.phase = "sweep" /\ record_flash_usage /\ measured' = measured
    BY DEF ScheduleOver, RunOver
  <1>2. JobOK(job)
    BY <1>1 DEF SweepInv
  <1>3. job' = Moved(job, job.run, job.at, "ending", job.active,
                     lastSweep(job.script, job.active), job.measured, job.failed)
    BY <1>2 DEF ScheduleOver, JobOK, Moved
  <1>4. /\ job' # NoJob /\ job'.name = job.name /\ job'.run = job.run
        /\ job'.measured = job.measured /\ job'.phase = "ending" /\ job'.failed = job.failed
    BY <1>3 DEF Moved, NoJob
  <1>5. /\ OwnOnly
        /\ cam.pc = "wait" /\ job.run # Prologue =>
             /\ FilesTrue(job.name, job.run, files'[job.name][job.run], measured[job.name][job.run])
             /\ files'[job.name][job.run].flash # "filled"
    BY <1>1, OwnFlash
  <1>6. job.name \in GroupNames => Printed(job.name, measured'[job.name])
    BY <1>1 DEF EvidenceInv
  <1>7. cam.pc = "wait" /\ job.run # Prologue =>
            Remaining(job', files'[job.name][job.run], measured[job.name][job.run])
    <2>1. cam.pc = "wait" /\ job.run # Prologue =>
              job.measured \in {NoResult, measured[job.name][job.run]}
      BY <1>1, WaitedFor DEF Waiting, Remaining
    <2> QED
      BY <1>4, <2>1 DEF Remaining
  <1> QED
    BY <1>1, <1>4, <1>5, <1>6, <1>7, EvidenceStep

\* The size of a file could not be written down: the script has failed.
LEMMA EvidenceFlashRaises ==
    ASSUME CampaignInv, EvidenceInv, SweepInv, UNCHANGED campaignVars, FlashRaises
    PROVE  EvidenceInv'
  <1>1. job # NoJob /\ job.phase = "sweep" /\ UNCHANGED <<files, measured>>
    BY DEF FlashRaises, RunOver
  <1>2. JobOK(job)
    BY <1>1 DEF SweepInv
  <1>3. job' = Moved(job, job.run, job.at, "ending", job.active,
                     lastSweep(job.script, job.active), job.measured, TRUE)
    BY <1>2 DEF FlashRaises, JobOK, Moved
  <1>4. /\ job' # NoJob /\ job'.name = job.name /\ job'.run = job.run
        /\ job'.measured = job.measured /\ job'.phase = "ending" /\ job'.failed
    BY <1>3 DEF Moved, NoJob
  <1> QED
    BY <1>1, <1>4, EvidenceSweep

\* The script goes on to a run that has no files yet.
LEMMA EvidenceNextRun ==
    ASSUME CampaignInv, EvidenceInv, SweepInv, UNCHANGED campaignVars, NextRun
    PROVE  EvidenceInv'
  <1> DEFINE fs == files[job.name]
             gs == files'[job.name]
             ms == measured[job.name]
  <1>1. /\ job # NoJob /\ job.phase = "sweep" /\ record_flash_usage /\ measured' = measured
        /\ ~job.failed
    BY DEF NextRun, RunOver
  <1>2. JobOK(job)
    BY <1>1 DEF SweepInv
  <1>3. PICK r \in runsLeft : /\ r = (CHOOSE i \in runsLeft : \A k \in runsLeft : i <= k)
                              /\ r # Prologue /\ IsRun(job, r) /\ r # job.run
    BY <1>2, NextRunIs DEF NextRun
  <1>4. job' = Moved(job, r, 1, "body", job.active, job.sweep, NoResult, job.failed)
    BY <1>2, <1>3 DEF NextRun, JobOK, Moved
  <1>5. /\ job' # NoJob /\ job'.name = job.name /\ job'.run = r /\ job'.at = 1
        /\ job'.measured = NoResult /\ job'.phase = "body" /\ job'.failed = job.failed
    BY <1>4 DEF Moved, NoJob
  <1>6. /\ OwnOnly
        /\ cam.pc = "wait" /\ job.run # Prologue =>
             /\ FilesTrue(job.name, job.run, gs[job.run], ms[job.run])
             /\ gs[job.run].flash # "filled"
    BY <1>1, OwnFlash
  <1>7. \A n \in GroupNames : Printed(n, measured'[n])
    BY <1>1 DEF EvidenceInv
  <1>8. ASSUME cam.pc = "wait"
        PROVE  Waiting(job.name, job', exitCode', gs, ms)
    <2>1. /\ Waiting(job.name, job, exitCode, fs, ms)
          /\ DOMAIN jobNamed(job.name).runs = runsOf(job.name)
          /\ \A i \in runsOf(job.name) : i \in Nat \ {0}
          /\ job.run # Prologue => job.run \in runsOf(job.name)
      BY <1>1, <1>8, WaitedFor
    <2>2. r \in runsOf(job.name) /\ r > job.run /\ job.run \in Nat
      BY <1>3, <2>1 DEF runsLeft, Prologue
    <2>3. \A i \in runsOf(job.name) : i # job.run => gs[i] = fs[i]
      BY <1>6, <2>1 DEF OwnOnly
    <2> HIDE DEF fs, gs, ms
    <2>4. ASSUME NEW i \in runsOf(job.name) PROVE FilesTrue(job.name, i, gs[i], ms[i])
      <3>1. CASE i = job.run
        BY <1>6, <1>8, <2>1, <3>1 DEF Prologue
      <3>2. CASE i # job.run
        BY <2>1, <2>3, <3>2 DEF Waiting
      <3> QED
        BY <3>1, <3>2
    <2>5. ASSUME NEW i \in runsOf(job.name), i > r \/ i = r PROVE gs[i] = NoFiles
      <3>1. i > job.run
        BY <2>1, <2>2, <2>5
      <3>2. i # job.run
        BY <2>1, <2>2, <3>1
      <3> QED
        BY <1>1, <2>1, <2>3, <3>1, <3>2 DEF Waiting
    <2>6. ASSUME NEW i \in runsOf(job.name) PROVE gs[i].flash # "filled"
      <3>1. ~job.failed
        BY <1>1
      <3>2. CASE i = job.run
        BY <1>6, <1>8, <2>1, <3>2 DEF Prologue
      <3>3. CASE i # job.run
        BY <1>1, <2>1, <2>3, <3>1, <3>3 DEF Waiting
      <3> QED
        BY <3>2, <3>3
    <2>7. gs[r].result = NoResult
      BY <2>2, <2>5 DEF NoFiles
    <2>8. Remaining(job', gs[r], ms[r])
      BY <1>5, <2>7 DEF Remaining
    <2> QED
      BY <1>1, <1>5, <2>4, <2>5, <2>6, <2>8 DEF Waiting
  <1>9. cam.pc = "wait" => Waiting(spec.name, job', exitCode', files'[spec.name], measured'[spec.name])
    BY <1>1, <1>8, WaitedFor
  <1> QED
    BY <1>1, <1>5, <1>6, <1>7, <1>9, EvidenceScript DEF OwnOnly

\* The script ends, or is killed.
LEMMA EvidenceEnd ==
    ASSUME CampaignInv, EvidenceInv, SweepInv, UNCHANGED campaignVars,
           Exit \/ NetworkStays \/ LastSweepRaises \/ HarnessKilled
    PROVE  EvidenceInv'
  <1>1. /\ job # NoJob /\ job' = NoJob /\ UNCHANGED <<files, measured>>
        /\ exitCode' = 0 => job.phase = "ending" /\ ~job.failed
    BY DEF Exit, NetworkStays, LastSweepRaises, Sweeping, HarnessKilled
  <1>2. Shaped(files', measured') /\ \A n \in GroupNames : Printed(n, measured'[n])
    BY <1>1 DEF EvidenceInv
  <1>3. ASSUME cam.pc = "wait"
        PROVE  Waiting(spec.name, job', exitCode', files'[spec.name], measured'[spec.name])
    <2>1. /\ Waiting(job.name, job, exitCode, files[job.name], measured[job.name])
          /\ job.name = spec.name
      BY <1>1, <1>3, WaitedFor
    <2> QED
      BY <1>1, <2>1 DEF Waiting
  <1> QED
    BY <1>1, <1>2, <1>3, EvidenceScript

\* Every step of a script keeps what the evidence says true.
LEMMA EvidenceHarness ==
    ASSUME CampaignInv, EvidenceInv, SweepInv, UNCHANGED campaignVars,
           HarnessStep \/ HarnessKilled
    PROVE  EvidenceInv'
  <1>1. CASE StartRaises \/ StartFails
    <2>1. AtStep("start") /\ measured' = measured
      BY <1>1 DEF StartRaises, StartFails
    <2>2. PICK h, fs : Raise(h) /\ fs \in {withFlash, files} /\ files' \in {withError(fs), fs}
      <3>1. PICK h : Thrown(withFlash, h) \/ Thrown(files, h)
        BY <1>1 DEF StartRaises, StartFails
      <3> QED
        BY <3>1 DEF Thrown
    <2> QED
      BY <2>1, <2>2, EvidenceStartFails
  <1>2. CASE StepRaises
    <2>1. PICK what : AtStep(what) /\ what # "start"
      BY <1>2 DEF StepRaises
    <2>2. PICK h, fs : /\ Raise(h) /\ files' \in {withError(fs), fs}
                       /\ fs \in {files, [files EXCEPT ![job.name][job.run].result = Torn]}
      BY <1>2 DEF StepRaises, Thrown
    <2>3. measured' = measured
      BY <1>2 DEF StepRaises
    <2> QED
      BY <2>1, <2>2, <2>3, EvidenceStepRaises
  <1> QED
    BY <1>1, <1>2, EvidenceStart, EvidenceWait, EvidenceFiles, EvidenceMeasure, EvidenceRecord,
       EvidenceSample, EvidenceHelper, EvidenceSweeps, EvidenceNextRun,
       EvidenceScheduleOver, EvidenceFlashRaises, EvidenceEnd
    DEF HarnessStep

-----------------------------------------------------------------------------
\* The driver, the people around it and the renderers.

\* Nothing is there in the beginning.
LEMMA EvidenceInit == Init => EvidenceInv
  <1> SUFFICES ASSUME Init PROVE EvidenceInv
    OBVIOUS
  <1>1. /\ job = NoJob
        /\ files = [n \in Names |-> [i \in DOMAIN jobNamed(n).runs |-> NoFiles]]
        /\ measured = [n \in Names |-> [i \in DOMAIN jobNamed(n).runs |-> NoResult]]
        /\ tables = [n \in GroupNames |-> "none"]
        /\ cam.pc = "off" /\ disk.runs = NoFile /\ disk.results = NoFile
    BY DEF Init, HarnessInit, NoDriver
  <1>2. FileShape(NoFiles)
    BY DEF FileShape, NoFiles
  <1>3. \A n \in Names : /\ files[n] = [i \in DOMAIN jobNamed(n).runs |-> NoFiles]
                         /\ measured[n] = [i \in DOMAIN jobNamed(n).runs |-> NoResult]
    BY <1>1
  <1>4. Shaped(files, measured)
    <2>1. files = [n \in Names |-> files[n]] /\ measured = [n \in Names |-> measured[n]]
      BY <1>1
    <2>2. ASSUME NEW n \in Names
          PROVE  /\ files[n] = [i \in DOMAIN jobNamed(n).runs |-> files[n][i]]
                 /\ measured[n] = [i \in DOMAIN jobNamed(n).runs |-> measured[n][i]]
                 /\ \A i \in DOMAIN jobNamed(n).runs : FileShape(files[n][i])
      BY <1>2, <1>3
    <2> QED
      BY <2>1, <2>2 DEF Shaped
  <1>5. \A n \in GroupNames : \A i \in runsOf(n) : files[n][i] = NoFiles /\ measured[n][i] = NoResult
    <2> TAKE n \in GroupNames
    <2>1. n \in Names /\ DOMAIN jobNamed(n).runs = runsOf(n)
      BY GroupJob
    <2>2. /\ files[n] = [i \in runsOf(n) |-> NoFiles]
          /\ measured[n] = [i \in runsOf(n) |-> NoResult]
      BY <1>3, <2>1
    <2> QED
      BY <2>2
  <1>6. \A n \in GroupNames : Printed(n, measured[n]) /\ Untouched(n)
    BY <1>1, <1>5 DEF Printed, Untouched
  <1> QED
    BY <1>1, <1>4, <1>6, NotStates DEF EvidenceInv, JobIsWaitedFor, JobIsNotDone, Active

\* What a step that leaves scripts and evidence alone has to show.
LEMMA EvidenceDriver ==
    ASSUME EvidenceInv, UNCHANGED <<job, files, measured, tables, launches>>,
           cam'.pc # "wait",
           job # NoJob => /\ cam'.pc \in {"off", "by_hand"} /\ disk' = disk
                          /\ isState(disk.runs) =>
                               \E n \in GroupNames : disk.runs.progress[n].status = "running",
           Active' => DictTrue(cam'.state, measured, tables),
           isState(disk'.runs) => DictTrue(disk'.runs, measured, tables),
           isState(disk'.results) => DictTrue(disk'.results, measured, tables)
    PROVE  EvidenceInv'
  <1>1. JobIsWaitedFor' /\ JobIsNotDone'
    BY DEF EvidenceInv, JobIsWaitedFor, JobIsNotDone, isState
  <1> QED
    BY <1>1 DEF EvidenceInv, Untouched, isState

\* No script is under way while the driver does something itself.
LEMMA NoJobNow ==
    ASSUME EvidenceInv, Active, cam.pc # "wait"
    PROVE  job = NoJob
  BY DEF EvidenceInv, JobIsWaitedFor, Active

\* A campaign starts, or is resumed.
LEMMA EvidenceBegin == ASSUME CampaignInv, EvidenceInv, Start \/ Resume PROVE EvidenceInv'
  <1>1. UNCHANGED <<job, files, measured, tables, launches, disk>> /\ cam'.pc # "wait"
    BY DEF Start, Resume, harnessVars
  <1>2. CASE Start
    <2>1. job = NoJob /\ cam'.state = first_state
      BY <1>2 DEF Start
    <2>2. \A n \in GroupNames : first_state.progress[n] = Absent
      BY DEF first_state
    <2>3. ~Absent.valid /\ Absent.status = "absent"
      BY DEF Absent, entry
    <2>4. DictTrue(first_state, measured, tables)
      BY <2>2, <2>3 DEF DictTrue
    <2> QED
      BY <1>1, <2>1, <2>4, EvidenceDriver DEF EvidenceInv, isState
  <1>3. CASE Resume
    <2>1. /\ isState(disk.runs) /\ cam.pc = "off" /\ cam'.state = disk.runs
          /\ \A n \in GroupNames : disk.runs.progress[n].status # "running"
      BY <1>3 DEF Resume, resumable, Off
    <2>2. job = NoJob
      BY <2>1 DEF EvidenceInv, JobIsWaitedFor
    <2> QED
      BY <1>1, <2>1, <2>2, EvidenceDriver DEF EvidenceInv, isState
  <1> QED
    BY <1>2, <1>3

\* The state dict is unchanged or saved.
LEMMA EvidenceSave == ASSUME CampaignInv, EvidenceInv, Mkdir \/ save PROVE EvidenceInv'
  <1>1. UNCHANGED <<job, files, measured, tables, launches>>
    BY DEF Mkdir, save, harnessVars
  <1>2. Active /\ cam.pc # "wait" /\ job = NoJob
    <2>1. cam.pc \in {"mkdir_runs", "mkdir_results", "save_first", "save_running", "save_runs",
                      "save_results", "finish_runs", "finish_results"}
      BY DEF Mkdir, save, Saving, At
    <2>2. Active /\ cam.pc # "wait"
      BY <2>1 DEF Active
    <2> QED
      BY <2>2, NoJobNow
  <1>3. DictTrue(cam.state, measured, tables)
    BY <1>2 DEF EvidenceInv
  <1>4. CASE Mkdir
    <2>1. disk' = disk /\ \E p \in {"mkdir_results", "save_first"} : cam' = [cam EXCEPT !.pc = p]
      BY <1>4 DEF Mkdir, goto
    <2>2. cam'.pc \in {"mkdir_results", "save_first"} /\ cam'.state = cam.state
      BY <2>1 DEF CampaignInv, Shapes
    <2> QED
      BY <1>1, <1>2, <1>3, <2>1, <2>2, EvidenceDriver DEF EvidenceInv
  <1>5. CASE save
    <2>1. /\ disk'.runs \in {disk.runs, cam.state}
          /\ disk'.results \in {disk.results, cam.state}
      BY <1>5 DEF save, savesTo, CampaignInv, Shapes
    <2>2. CASE At("finish_results")
      <3>1. cam'.pc = "off"
        BY <1>5, <2>2 DEF save, NoDriver
      <3> QED
        BY <1>1, <1>2, <1>3, <2>1, <3>1, EvidenceDriver DEF EvidenceInv, Active, isState
    <2>3. CASE ~At("finish_results")
      <3>1. cam' = [pc |-> afterSave(cam.pc), state |-> cam.state, group |-> cam.group]
        BY <1>5, <2>3, Goto DEF save, goto, CampaignInv
      <3>2. afterSave(cam.pc) # "wait"
        BY <1>5, <2>3 DEF save, Saving, At, afterSave
      <3> QED
        BY <1>1, <1>2, <1>3, <2>1, <3>1, <3>2, EvidenceDriver DEF EvidenceInv, isState
    <2> QED
      BY <2>2, <2>3
  <1> QED
    BY <1>4, <1>5

\* A group is marked running, or none is left to do.
LEMMA EvidenceMark ==
    ASSUME CampaignInv, EvidenceInv, MarkRunning \/ Finish
    PROVE  EvidenceInv'
  <1>1. UNCHANGED <<job, files, measured, tables, launches, disk>> /\ cam.pc = "next"
    BY DEF MarkRunning, Finish, harnessVars, At
  <1>2. Active /\ job = NoJob
    BY <1>1, NoJobNow DEF Active
  <1>3. DictTrue(cam.state, measured, tables) /\ IsDict(cam.state)
    BY <1>2 DEF EvidenceInv, CampaignInv, Memory, Sound
  <1>4. CASE MarkRunning
    <2>1. PICK i \in toDo : cam' = [cam EXCEPT !.pc = "save_running", !.group = i,
                                               !.state.progress[GROUPS[i].name] = Running]
      BY <1>4 DEF MarkRunning
    <2> DEFINE g == GROUPS[i].name
               t == [cam.state EXCEPT !.progress[g] = Running]
    <2>2. g \in GroupNames
      BY NameOfGroup DEF toDo
    <2>3. cam' = [pc |-> "save_running", state |-> t, group |-> i]
      BY <2>1 DEF CampaignInv, Shapes
    <2> HIDE DEF t, g
    <2>4. /\ IsDict(t) /\ t.progress[g] = Running
          /\ \A n \in GroupNames \ {g} : t.progress[n] = cam.state.progress[n]
          /\ t.tree = cam.state.tree /\ t.finished = cam.state.finished
      BY <1>3, <2>2, EntryUpdate DEF t
    <2>5. ~Running.valid /\ Running.status = "running"
      BY DEF Running, entry
    <2>6. DictTrue(t, measured, tables)
      BY <1>3, <2>4, <2>5 DEF DictTrue
    <2> QED
      BY <1>1, <1>2, <2>3, <2>6, EvidenceDriver DEF EvidenceInv
  <1>5. CASE Finish
    <2> DEFINE v == \A n \in GroupNames : cam.state.progress[n].valid
               q == \A n \in GroupNames : cam.state.progress[n].qualified
               t == [cam.state EXCEPT !.finished = TRUE, !.valid = v, !.qualified = q]
    <2>1. cam' = [pc |-> "finish_runs", state |-> t, group |-> cam.group]
      BY <1>5 DEF Finish, CampaignInv, Shapes
    <2>2. t.progress = cam.state.progress
      <3> HIDE DEF v, q
      <3> QED
        BY <1>3 DEF IsDict
    <2> HIDE DEF t
    <2>3. DictTrue(t, measured, tables)
      BY <1>3, <2>2 DEF DictTrue
    <2> QED
      BY <1>1, <1>2, <2>1, <2>3, EvidenceDriver DEF EvidenceInv
  <1> QED
    BY <1>4, <1>5

\* The script of a group is started into a directory without files.
LEMMA EvidenceLaunch == ASSUME CampaignInv, EvidenceInv, LaunchGroup PROVE EvidenceInv'
  <1> DEFINE g == spec.name
  <1>1. /\ cam.pc = "launch" /\ job = NoJob
        /\ launches' = [launches EXCEPT ![g] = @ + 1]
        /\ UNCHANGED <<disk, tables, files, measured>>
    BY DEF LaunchGroup, At, Launch, Refused
  <1>2. cam' = [pc |-> "wait", state |-> cam.state, group |-> cam.group]
    BY Goto DEF LaunchGroup, goto, CampaignInv
  <1>3. /\ cam.group \in DOMAIN GROUPS /\ g \in GroupNames /\ disk.runs = cam.state
        /\ cam.state.progress[g] = Running /\ launches[g] = 0
    BY <1>1, NameOfGroup DEF CampaignInv, Group, Measuring, Saved, spec
  <1>4. spec' = spec
    BY <1>2 DEF spec
  <1>5. spec = specOf(g)
    BY <1>3, SpecNow
  <1> HIDE DEF g
  <1>6. launches'[g] = 1 /\ \A n \in GroupNames \ {g} : launches'[n] = launches[n]
    BY <1>1, <1>3 DEF CampaignInv, Shapes
  <1>7. \A i \in runsOf(g) : files[g][i] = NoFiles /\ tables[g] = "none"
    BY <1>3 DEF EvidenceInv, Untouched
  <1>8. tables[g] = "none"
    BY <1>3 DEF EvidenceInv, Untouched
  <1>9. job' = NoJob \/
        job' = [name |-> g, script |-> group_command(spec).script, run |-> Prologue, at |-> 1,
                phase |-> "body", active |-> {}, sweep |-> {},
                measured |-> NoResult, failed |-> FALSE]
    BY DEF LaunchGroup, Launch, Refused, group_command, g
  <1>10. job' # NoJob => /\ job'.name = g /\ job'.run = Prologue /\ job'.phase = "body"
                         /\ ~job'.failed
    BY <1>9
  <1>11. Waiting(g, job', exitCode', files[g], measured[g])
    <2>1. \A i \in runsOf(g) : FilesTrue(g, i, files[g][i], measured[g][i])
      BY <1>7 DEF FilesTrue, NoFiles, readable
    <2>2. \A i \in runsOf(g) : files[g][i].flash # "filled"
      BY <1>7 DEF NoFiles
    <2> QED
      BY <1>7, <1>10, <2>1, <2>2 DEF Waiting
  <1>12. JobIsWaitedFor'
    BY <1>2, <1>4, <1>10 DEF JobIsWaitedFor, g
  <1>13. JobIsNotDone'
    <2>1. cam.state.progress[g].status = "running"
      BY <1>3, EntriesDiffer
    <2>2. isState(disk.results) => disk.results.progress[g].status # "complete"
      BY <1>3 DEF CampaignInv, Files, Sound
    <2> QED
      BY <1>1, <1>3, <1>6, <1>10, <2>1, <2>2 DEF JobIsNotDone, isState
  <1>14. \A n \in GroupNames : launches'[n] = 0 => Untouched(n)'
    BY <1>1, <1>6 DEF EvidenceInv, Untouched
  <1>15. Active
    BY <1>1 DEF Active
  <1>16. cam'.pc = "wait" => /\ disk'.runs = cam'.state /\ tables'[spec'.name] = "none"
                             /\ Waiting(spec.name, job, exitCode, files[spec.name], measured[spec.name])'
    BY <1>1, <1>2, <1>3, <1>4, <1>8, <1>11 DEF g
  <1> QED
    BY <1>1, <1>2, <1>12, <1>13, <1>14, <1>15, <1>16 DEF EvidenceInv, isState

\* What validate_group says of the files of a script that has ended is what the
\* script measured.
LEMMA ConclusionTrue ==
    ASSUME NEW n \in GroupNames, Shaped(files, measured),
           Waiting(n, NoJob, exitCode, files[n], measured[n]), tables[n] = "none",
           NEW tb, ~summarizes(n) => tb = "none"
    PROVE  Verdict(n, conclusion(n, exitCode, summarizes(n)), measured[n], tb)
  <1> DEFINE sm == summarizes(n)
             e == conclusion(n, exitCode, sm)
  <1>1. DOMAIN files[n] = runsOf(n)
    BY GroupJob DEF Shaped
  <1>2. /\ e.evidence.raw = files[n]
        /\ e.evidence.generated = IF sm THEN "made" ELSE "none"
    BY DEF conclusion, evidence_hashes
  <1>3. e.valid => valid(specOf(n)) /\ exitCode = 0 /\ sm
    BY DEF conclusion, validate_group
  <1> HIDE DEF e
  <1>4. \A i \in runsOf(n) : FilesTrue(n, i, files[n][i], measured[n][i])
    BY DEF Waiting
  <1>5. ASSUME e.valid, NEW i \in runsOf(n)
        PROVE  /\ ~problem(specOf(n), files[n][i])
               /\ files[n][i].cgroup
               /\ tiered(n, i) => files[n][i].flash = "recorded"
    <2>1. ~problem(specOf(n), files[n][i])
      <3>1. specOf(n).name = n
        BY GroupJob
      <3> QED
        BY <1>3, <1>5, <3>1 DEF valid, runsOf
    <2>2. readable(files[n][i].result)
      BY <2>1 DEF problem
    <2>3. files[n][i].cgroup
      BY <1>1, <1>3, <1>5, <2>2 DEF summarizes, readable
    <2>4. files[n][i].flash # "filled"
      BY <1>3, <1>5 DEF Waiting
    <2>5. tiered(n, i) => files[n][i].flash = "recorded"
      BY <1>4, <2>2, <2>4 DEF FilesTrue, readable
    <2> QED
      BY <2>1, <2>3, <2>5
  <1>6. /\ DOMAIN e.evidence.raw = runsOf(n)
        /\ e.evidence.generated \in {"none", "made"}
        /\ e.evidence.generated = "none" => tb = "none"
    BY <1>1, <1>2
  <1>7. \A i \in runsOf(n) : readable(files[n][i].result) => files[n][i].result = measured[n][i]
    BY <1>4 DEF FilesTrue
  <1>8. Verdict(n, e, measured[n], tb)
    BY <1>2, <1>5, <1>6, <1>7 DEF Verdict
  <1> QED
    BY <1>8 DEF e

\* The verdict is taken of the evidence of the group that was waited for.
LEMMA EvidenceConclude == ASSUME CampaignInv, EvidenceInv, Conclude PROVE EvidenceInv'
  <1> DEFINE g == spec.name
             e == conclusion(g, exitCode, summarizes(g))
             t == [cam.state EXCEPT !.progress[g] = e]
  <1>1. /\ cam.pc = "wait" /\ job = NoJob
        /\ UNCHANGED <<disk, launches, job, files, measured>>
        /\ tables' = IF summarizes(g) THEN [tables EXCEPT ![g] = "made"] ELSE tables
    BY DEF Conclude, At, harnessVars
  <1>2. cam' = [pc |-> "save_runs", state |-> t, group |-> cam.group]
    <2>1. cam' = [cam EXCEPT !.pc = "save_runs", !.state.progress[g] = e]
      BY DEF Conclude
    <2> QED
      BY <2>1 DEF CampaignInv, Shapes
  <1>3. /\ g \in GroupNames /\ cam.state.progress[g] = Running /\ launches[g] = 1
        /\ disk.runs = cam.state /\ IsDict(cam.state) /\ Active
    BY <1>1, NameOfGroup
    DEF CampaignInv, Group, Measuring, Memory, Active, Sound, spec, EvidenceInv
  <1>4. /\ Waiting(g, NoJob, exitCode, files[g], measured[g]) /\ tables[g] = "none"
        /\ Shaped(files, measured) /\ DOMAIN tables = GroupNames
    BY <1>1 DEF EvidenceInv
  <1>5. e.status = "complete"
    BY EntriesDiffer
  <1> HIDE DEF g
  <1>6. /\ ~summarizes(g) => tables'[g] = "none"
        /\ DOMAIN tables' = GroupNames
        /\ \A n \in GroupNames \ {g} : tables'[n] = tables[n]
    BY <1>1, <1>4
  <1>7. Verdict(g, e, measured[g], tables'[g])
    <2> DEFINE tb == tables'[g]
    <2>1. ~summarizes(g) => tb = "none"
      BY <1>6
    <2> HIDE DEF tb
    <2> QED
      BY <1>3, <1>4, <2>1, ConclusionTrue DEF tb
  <1> HIDE DEF e, t
  <1>8. /\ IsDict(t) /\ t.progress[g] = e
        /\ \A n \in GroupNames \ {g} : t.progress[n] = cam.state.progress[n]
        /\ t.tree = cam.state.tree /\ t.finished = cam.state.finished
    BY <1>3, EntryUpdate DEF t
  <1>9. ASSUME NEW s, DictTrue(s, measured, tables), s.progress[g].status # "complete"
        PROVE  DictTrue(s, measured, tables')
    BY <1>6, <1>9 DEF DictTrue
  <1>10. DictTrue(t, measured, tables')
    <2>1. DictTrue(cam.state, measured, tables)
      BY <1>3 DEF EvidenceInv
    <2> QED
      BY <1>5, <1>6, <1>7, <1>8, <2>1 DEF DictTrue
  <1>11. cam.state.progress[g].status # "complete"
    BY <1>3, EntriesDiffer
  <1>12. isState(disk.runs) => DictTrue(disk.runs, measured, tables')
    BY <1>3, <1>9, <1>11 DEF EvidenceInv
  <1>13. isState(disk.results) => DictTrue(disk.results, measured, tables')
    <2>1. SUFFICES ASSUME isState(disk.results) PROVE DictTrue(disk.results, measured, tables')
      OBVIOUS
    <2>2. Behind(disk.results, cam.state)
      BY <1>3, <2>1 DEF CampaignInv, Memory
    <2>3. disk.results.progress[g].status # "complete"
      BY <1>3, <1>11, <2>2 DEF Behind
    <2> QED
      BY <1>9, <2>1, <2>3 DEF EvidenceInv
  <1>14. \A n \in GroupNames : launches'[n] = 0 => Untouched(n)'
    BY <1>1, <1>3, <1>6 DEF EvidenceInv, Untouched
  <1>15. JobIsWaitedFor' /\ JobIsNotDone'
    BY <1>1 DEF JobIsWaitedFor, JobIsNotDone
  <1> QED
    BY <1>1, <1>2, <1>6, <1>10, <1>12, <1>13, <1>14, <1>15 DEF EvidenceInv, isState

\* The driver dies; a script it waits for goes on, and its group stays marked.
LEMMA EvidenceDie == ASSUME CampaignInv, EvidenceInv, Die PROVE EvidenceInv'
  <1>1. UNCHANGED <<job, files, measured, tables, launches>> /\ cam'.pc = "off"
    BY DEF Die, NoDriver
  <1>2. /\ disk'.runs \in {disk.runs, Torn} /\ disk'.results \in {disk.results, Torn}
        /\ ~Saving => disk' = disk
    BY DEF Die, savesTo, CampaignInv, Shapes
  <1>3. ASSUME job # NoJob
        PROVE  /\ disk' = disk
               /\ isState(disk.runs) =>
                    \E n \in GroupNames : disk.runs.progress[n].status = "running"
    <2>1. CASE cam.pc = "wait"
      <3>1. ~Saving
        BY <2>1 DEF Saving
      <3>2. spec.name \in GroupNames /\ cam.state.progress[spec.name] = Running
        BY <2>1, NameOfGroup DEF CampaignInv, Group, Measuring, spec
      <3>3. disk.runs = cam.state
        BY <2>1 DEF EvidenceInv
      <3> QED
        BY <1>2, <3>1, <3>2, <3>3, EntriesDiffer
    <2>2. CASE cam.pc # "wait"
      <3>1. /\ cam.pc \in {"off", "by_hand"}
            /\ isState(disk.runs) =>
                 \E n \in GroupNames : disk.runs.progress[n].status = "running"
        BY <1>3, <2>2 DEF EvidenceInv, JobIsWaitedFor
      <3>2. ~Saving
        BY <3>1 DEF Saving
      <3> QED
        BY <1>2, <3>1, <3>2
    <2> QED
      BY <2>1, <2>2
  <1>4. /\ isState(disk'.runs) => DictTrue(disk'.runs, measured, tables)
        /\ isState(disk'.results) => DictTrue(disk'.results, measured, tables)
    BY <1>2, NotStates DEF EvidenceInv
  <1> QED
    BY <1>1, <1>3, <1>4, EvidenceDriver DEF Active

\* Somebody uses a script by hand: there is no campaign.json.
LEMMA EvidenceByHand == ASSUME CampaignInv, EvidenceInv, RunByHand PROVE EvidenceInv'
  <1>1. /\ UNCHANGED <<files, measured, tables, launches, disk>>
        /\ cam' = [cam EXCEPT !.pc = "by_hand"] /\ dirs = {}
    BY DEF RunByHand, goto, Launch
  <1>2. cam'.pc = "by_hand"
    BY <1>1 DEF CampaignInv, Shapes
  <1>3. disk.runs = NoFile
    BY <1>1 DEF CampaignInv, Beginning, NothingYet
  <1>4. job'.name \notin GroupNames
    BY DEF RunByHand, Launch
  <1>5. JobIsWaitedFor' /\ JobIsNotDone'
    BY <1>1, <1>2, <1>3, <1>4, NotStates DEF JobIsWaitedFor, JobIsNotDone, isState
  <1> QED
    BY <1>1, <1>2, <1>5 DEF EvidenceInv, Untouched, isState, Active

\* Renderers and edits of the source tree change no evidence.
LEMMA EvidenceElsewhere ==
    ASSUME EvidenceInv,
           UNCHANGED <<job, exitCode, files, measured, tables, launches, cam, disk>>
    PROVE  EvidenceInv'
  BY DEF EvidenceInv, Untouched, JobIsWaitedFor, JobIsNotDone, isState, Active, spec

\* Something is changed by hand, or added: the evidence as it was recorded stays true.
LEMMA EvidenceEdit == ASSUME CampaignInv, EvidenceInv, EditEvidence PROVE EvidenceInv'
  <1>1. /\ cam.pc = "off" /\ job = NoJob
        /\ UNCHANGED <<job, measured, launches, cam, disk>>
    BY DEF EditEvidence, Off
  <1>2. Shaped(files, measured) /\ DOMAIN tables = GroupNames
    BY DEF EvidenceInv
  <1>3. PICK g \in GroupNames :
          \/ /\ tables[g] = "made" /\ tables' = [tables EXCEPT ![g] = "changed"]
             /\ files' = files
          \/ /\ tables' = tables /\ launches[g] > 0
             /\ \E i \in DOMAIN files[g] : \E f \in handmade(g, files[g][i]) :
                  files' = [files EXCEPT ![g][i] = f]
    BY DEF EditEvidence
  <1>4. DOMAIN files[g] = DOMAIN jobNamed(g).runs /\ DOMAIN files[g] = runsOf(g) /\ g \in Names
    BY <1>2, GroupJob DEF Shaped
  <1>5. /\ Shaped(files', measured) /\ DOMAIN tables' = GroupNames
        /\ \A n \in GroupNames : n # g => files'[n] = files[n] /\ tables'[n] = tables[n]
        /\ tables[g] = "none" => tables'[g] = "none"
        /\ files' = files \/ launches[g] > 0
    <2>1. CASE tables[g] = "made" /\ tables' = [tables EXCEPT ![g] = "changed"] /\ files' = files
      BY <1>2, <2>1
    <2>2. ASSUME NEW i \in DOMAIN files[g], NEW f \in handmade(g, files[g][i]),
                 files' = [files EXCEPT ![g][i] = f]
          PROVE  /\ Shaped(files', measured)
                 /\ \A n \in Names : n # g => files'[n] = files[n]
      <3> DEFINE gs == files'
      <3>1. FileShape(files[g][i])
        BY <1>2, <1>4 DEF Shaped
      <3>2. FileShape(f)
        <4> DEFINE k == files[g][i]
        <4> HIDE DEF k
        <4>1. \/ \E o : f = [k EXCEPT !.result = o]
              \/ f = [k EXCEPT !.error = "none"] \/ f = [k EXCEPT !.probe = TRUE]
          BY DEF handmade, k
        <4>2. FileShape(k)
          BY <3>1 DEF k
        <4> QED
          BY <4>1, <4>2 DEF FileShape
      <3>3. gs = put(files, g, i, f)
        BY <2>2 DEF put
      <3> HIDE DEF gs
      <3>4. /\ Shaped(gs, measured)
            /\ \A m \in Names : m # g => gs[m] = files[m]
        <4>1. i \in DOMAIN jobNamed(g).runs /\ g \in Names
          BY <1>4
        <4> QED
          BY <1>2, <3>2, <3>3, <4>1, PutFile
      <3> QED
        BY <3>4 DEF gs
    <2>3. CASE /\ tables' = tables /\ launches[g] > 0
               /\ \E i \in DOMAIN files[g] : \E f \in handmade(g, files[g][i]) :
                    files' = [files EXCEPT ![g][i] = f]
      BY <1>2, <2>2, <2>3, GroupJob
    <2> QED
      BY <1>3, <2>1, <2>3
  <1>6. ASSUME NEW s, DictTrue(s, measured, tables)
        PROVE  DictTrue(s, measured', tables')
    BY <1>1, <1>5, <1>6 DEF DictTrue, Verdict
  <1>7. ASSUME NEW n \in GroupNames, launches[n] = 0 PROVE Untouched(n)'
    <2>1. Untouched(n)
      BY <1>7 DEF EvidenceInv
    <2>2. CASE n # g
      BY <1>5, <2>1, <2>2 DEF Untouched
    <2>3. CASE n = g
      <3>1. files' = files
        BY <1>5, <1>7, <2>3
      <3> QED
        BY <1>5, <2>1, <2>3, <3>1 DEF Untouched
    <2> QED
      BY <2>2, <2>3
  <1>8. JobIsWaitedFor' /\ JobIsNotDone'
    BY <1>1 DEF JobIsWaitedFor, JobIsNotDone
  <1> QED
    BY <1>1, <1>5, <1>6, <1>7, <1>8 DEF EvidenceInv, isState, Active

\* Every step keeps what the evidence says true.
LEMMA EvidenceNext ==
    ASSUME CampaignInv, SweepInv, EvidenceInv, [Next]_vars
    PROVE  EvidenceInv'
  <1>1. CASE Start \/ Resume  BY <1>1, EvidenceBegin
  <1>2. CASE DriverStep
    BY <1>2, EvidenceSave, EvidenceMark, EvidenceLaunch, EvidenceConclude DEF DriverStep
  <1>3. CASE Die  BY <1>3, EvidenceDie
  <1>4. CASE Script \/ ScriptKilled
    BY <1>4, EvidenceHarness DEF Script, ScriptKilled
  <1>5. CASE RunByHand  BY <1>5, EvidenceByHand
  <1>6. CASE \/ WriteReport \/ WriteReadme \/ RendererStopped \/ EditSource
           \/ LeftoverEnds \/ UNCHANGED vars
    BY <1>6, EvidenceElsewhere
    DEF WriteReport, WriteReadme, RendererStopped, EditSource, LeftoverEnds, HelperEnds,
        vars, harnessVars, campaignVars
  <1>7. CASE EditEvidence  BY <1>7, EvidenceEdit
  <1> QED
    BY <1>1, <1>2, <1>3, <1>4, <1>5, <1>6, <1>7 DEF Next

\* The invariant holds throughout.
THEOREM EvidenceInvariant == Spec => []EvidenceInv
  <1>1. Spec => []SweepInv
    BY SweepInit, SweepNext, CampaignInvariant, PTL DEF Spec
  <1> QED
    BY <1>1, EvidenceInit, EvidenceNext, CampaignInvariant, PTL DEF Spec

\* A verdict of valid: every run has the measurement it was given
\* (release_campaign.py:106-173, 275-278).
THEOREM ValidMeansMeasuredHolds == Spec => []ValidMeansMeasured
  <1>1. EvidenceInv => ValidMeansMeasured
    <2> SUFFICES ASSUME EvidenceInv, isState(disk.runs), NEW n \in GroupNames,
                        disk.runs.progress[n].valid, NEW i \in DOMAIN specOf(n).runs
                 PROVE  LET d == measured[n][i]  f == disk.runs.progress[n].evidence.raw[i] IN
                        /\ d # NoResult /\ f.result = d
                        /\ ~d.errors /\ (d.exit = 0 \/ d.dropped)
                        /\ specOf(n).kind = "kv" => f.probe
                        /\ f.cgroup
                        /\ specOf(n).runs[i].engine \in FILE_TIER_ENGINES => f.flash = "recorded"
      BY DEF ValidMeansMeasured
    <2> DEFINE f == disk.runs.progress[n].evidence.raw[i]
    <2>1. Verdict(n, disk.runs.progress[n], measured[n], tables[n])
      BY DEF EvidenceInv, DictTrue
    <2>2. /\ ~problem(specOf(n), f) /\ f.cgroup
          /\ tiered(n, i) => f.flash = "recorded"
          /\ readable(f.result) => f.result = measured[n][i]
      BY <2>1 DEF Verdict, runsOf
    <2>3. specOf(n).runs[i].engine \in FILE_TIER_ENGINES => tiered(n, i)
      <3>1. jobNamed(n) = group_command(specOf(n)) /\ group_command(specOf(n)) \in Jobs
        BY GroupJob, GroupsAssumption
      <3>2. specOf(n).kind # "kv" => specOf(n).runs[i].engine \in {"nginx", "grpc_adapter", "origin_direct"}
        BY <3>1, JobsAssumption DEF group_command
      <3> QED
        BY <3>2 DEF tiered, FILE_TIER_ENGINES
    <2> QED
      BY <2>2, <2>3 DEF problem, readable, drop_only_exit
  <1> QED
    BY <1>1, EvidenceInvariant, PTL

\* What the renderers find of a group in a finished campaign: each result that was
\* recorded is the one there now, and the one its script measured.
LEMMA PublishedIsMeasured ==
    ASSUME CampaignInv, EvidenceInv, renderable, NEW n \in GroupNames,
           validate_group(specOf(n)).qualified
    PROVE  /\ tables[n] = "made" /\ launches[n] = 1
           /\ DOMAIN summarized(n) = runsOf(n)
           /\ \A i \in runsOf(n) :
                LET d == measured[n][i]  h == summarized(n)[i] IN
                /\ readable(files[n][i].result)
                /\ h.result # NoResult =>
                      /\ readable(d) /\ h.result = d /\ d = files[n][i].result
                      /\ ~d.errors
                      /\ specOf(n).overload \/ ~d.dropped
                      /\ specOf(n).fullHit => ~d.origins
                      /\ h.error = "none" \/ d.dropped
  <1> DEFINE e == disk.results.progress[n]
  <1>1. /\ isState(disk.results) /\ disk.results.finished
        /\ ~evidenceChanged(n, e.evidence) /\ tables[n] # "none"
    BY DEF renderable
  <1>2. e.status = "complete" /\ launches[n] = 1
    BY <1>1 DEF CampaignInv, Files, Sound
  <1>3. Verdict(n, e, measured[n], tables[n])
    BY <1>1, <1>2 DEF EvidenceInv, DictTrue
  <1>4. tables[n] = "made"
    BY <1>1, <1>3 DEF Verdict, evidenceChanged
  <1>5. DOMAIN summarized(n) = runsOf(n) /\ DOMAIN files[n] = runsOf(n)
    BY <1>3, GroupJob DEF Verdict, summarized, EvidenceInv, Shaped
  <1>6. ASSUME NEW i \in runsOf(n)
        PROVE  LET d == measured[n][i]  h == summarized(n)[i] IN
                /\ readable(files[n][i].result)
                /\ h.result # NoResult =>
                      /\ readable(d) /\ h.result = d /\ d = files[n][i].result
                      /\ ~d.errors
                      /\ specOf(n).overload \/ ~d.dropped
                      /\ specOf(n).fullHit => ~d.origins
                      /\ h.error = "none" \/ d.dropped
    <2> DEFINE f == files[n][i]
               h == summarized(n)[i]
               d == measured[n][i]
    <2>1. ~problem(specOf(n), f) /\ ~limitation(specOf(n), specOf(n).runs[i], f)
      <3>1. specOf(n).name = n
        BY GroupJob
      <3> QED
        BY <1>6, <3>1 DEF validate_group, valid, runsOf
    <2>2. readable(f.result)
      BY <2>1 DEF problem
    <2>3. ~fileChanged(h, f)
      BY <1>1, <1>5, <1>6 DEF evidenceChanged, summarized
    <2>4. readable(h.result) => h.result = d
      BY <1>3, <1>6 DEF Verdict, summarized
    <2>5. ASSUME h.result # NoResult
          PROVE  /\ readable(d) /\ h.result = d /\ d = f.result
                 /\ ~d.errors
                 /\ specOf(n).overload \/ ~d.dropped
                 /\ specOf(n).fullHit => ~d.origins
                 /\ h.error = "none" \/ d.dropped
      <3>1. f.result = h.result
        BY <2>3, <2>5 DEF fileChanged
      <3>2. f.result = d /\ h.result = d /\ readable(d)
        BY <2>2, <2>4, <3>1
      <3>3. d \in Outcomes(group_command(specOf(n)).script)
        BY <1>6, <3>2 DEF EvidenceInv, Printed, readable
      <3>4. specOf(n).kind # "kv" => ~d.dropped
        <4>1. specOf(n).kind # "kv" => group_command(specOf(n)).script = "http"
          BY DEF group_command
        <4> QED
          BY <3>3, <4>1, OutcomesAssumption
      <3>5. ~d.errors /\ (f.error = "none" \/ d.dropped)
        BY <2>1, <3>2 DEF problem, excused
      <3>6. h.error = "none" \/ f.error = h.error
        BY <2>3 DEF fileChanged
      <3>7. specOf(n).overload \/ ~d.dropped
        BY <2>1, <2>2, <3>2, <3>4 DEF limitation
      <3>8. specOf(n).fullHit => ~d.origins
        BY <2>1, <2>2, <3>2 DEF limitation
      <3> QED
        BY <3>2, <3>5, <3>6, <3>7, <3>8
    <2> HIDE DEF f, h, d
    <2> QED
      BY <2>2, <2>5 DEF f, h, d
  <1> QED
    BY <1>2, <1>4, <1>5, <1>6

\* When --check passes, the recorded results behind the claims of the report and the
\* README are those measured, and the headlines of the release README rest on no
\* other (render_release_report.py:70-78, 152-159).
THEOREM CheckedClaimsBackedHolds == Spec => []CheckedClaimsBacked
  <1>1. CampaignInv /\ EvidenceInv => CheckedClaimsBacked
    <2> SUFFICES ASSUME CampaignInv, EvidenceInv, CheckPasses, NEW n \in doc.report \cup doc.readme
                 PROVE  /\ tables[n] = "made"
                        /\ launches[n] = 1
                        /\ \A i \in DOMAIN specOf(n).runs :
                              LET d == measured[n][i]  h == summarized(n)[i] IN
                              /\ n \in doc.readme /\ Edition = "release" => h.result # NoResult
                              /\ h.result # NoResult =>
                                    /\ d # NoResult /\ d = files[n][i].result
                                    /\ ~d.errors
                                    /\ specOf(n).overload \/ ~d.dropped
                                    /\ specOf(n).fullHit => ~d.origins
      BY DEF CheckedClaimsBacked
    <2>1. /\ renderable /\ ~readme_raises
          /\ doc.report = report /\ doc.readme = readme_headlines
      BY DEF CheckPasses
    <2>2. n \in GroupNames /\ validate_group(specOf(n)).qualified
      BY <2>1 DEF report, release_report, landscape_report, readme_headlines, headlines
    <2>3. ASSUME n \in doc.readme, Edition = "release", NEW i \in DOMAIN specOf(n).runs
          PROVE  summarized(n)[i].result # NoResult
      <3>1. ~unsupported(n)
        BY <2>1, <2>3 DEF readme_raises
      <3>2. i \in rows(n)
        BY <2>3, <3>1 DEF unsupported
      <3> QED
        BY <3>2 DEF rows, readable
    <2> QED
      BY <2>1, <2>2, <2>3, PublishedIsMeasured DEF runsOf, readable
  <1> QED
    BY <1>1, CampaignInvariant, EvidenceInvariant, PTL

\* The raw files and the summary agree about every headline group, as long as nobody
\* adds a result (render_release_report.py:70-78).
THEOREM SummaryAgreesHolds == Spec => []SummaryAgrees
  <1>1. CampaignInv /\ EvidenceInv => SummaryAgrees
    <2> SUFFICES ASSUME CampaignInv, EvidenceInv, renderable, NoResultAdded,
                        NEW n \in readme_headlines, unsupported(n)
                 PROVE  FALSE
      BY DEF SummaryAgrees, readme_raises
    <2>1. n \in GroupNames /\ specOf(n).headline /\ validate_group(specOf(n)).qualified
      BY DEF readme_headlines, headlines
    <2>2. ~specOf(n).overload
      BY <2>1, GroupJob, HeadlinesAssumption
    <2>3. DOMAIN summarized(n) = runsOf(n)
      BY <2>1, PublishedIsMeasured
    <2>4. ASSUME NEW i \in runsOf(n) PROVE summarized(n)[i].result # NoResult
      <3>1. readable(files[n][i].result)
        BY <2>1, PublishedIsMeasured
      <3> QED
        BY <2>1, <2>3, <3>1 DEF NoResultAdded, readable
    <2>5. \A i \in runsOf(n) :
             LET d == measured[n][i]  h == summarized(n)[i] IN
             /\ readable(d) /\ h.result = d
             /\ ~d.errors /\ ~d.dropped
             /\ specOf(n).fullHit => ~d.origins
             /\ h.error = "none"
      BY <2>1, <2>2, <2>4, PublishedIsMeasured
    <2>6. failed_runs(n) = {}
      BY <2>3, <2>4, <2>5 DEF failed_runs
    <2>7. rows(n) = DOMAIN specOf(n).runs
      BY <2>3, <2>5 DEF rows, runsOf
    <2> QED
      BY <2>5, <2>6, <2>7 DEF unsupported, runsOf
  <1> QED
    BY <1>1, CampaignInvariant, EvidenceInvariant, PTL
=============================================================================
