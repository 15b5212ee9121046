------------------------------ MODULE Campaign ------------------------------
(***************************************************************************)
(* bench/strong/release_campaign.py, landscape_campaign.py and the two     *)
(* report renderers, over the measuring scripts of module Harness.         *)
(*                                                                         *)
(* The campaign driver measures every group of GROUPS once, in order: it   *)
(* notes in runs/campaign.json that the group is running, starts the       *)
(* group's script, summarises and validates what the script left, notes    *)
(* the verdict with the hashes of the evidence, and copies campaign.json   *)
(* to the results.  It can die at any step; --resume goes on from          *)
(* runs/campaign.json.  The renderers publish from the results copy and    *)
(* from the raw files.  Every save is a step of its own: write_text is not *)
(* atomic, and a driver that dies in it leaves a file nobody can parse.    *)
(*                                                                         *)
(* Between driver processes the source tree may be edited and an evidence  *)
(* file changed: at most MaxEdits times.                                   *)
(***************************************************************************)
EXTENDS Harness

CONSTANTS
    GROUPS,      \* the specs: name, kind, headline, compared, overload, fullHit, runs
    Edition,     \* "release" or "landscape": which renderer
    NoFile,      \* there is no campaign.json
    NoDoc,       \* nothing has been rendered
    MaxEdits     \* bound: edits by hand in one behaviour

VARIABLES
    dirs,        \* which of the output paths exist
    disk,        \* the two campaign.json files
    cam,         \* the driver process: where it is, and its state dict
    tree,        \* versions of the harness, the images and the definition
    tables,      \* what summarize.py left of each group: nothing, its files,
                 \* or files that were changed later
    doc,         \* what the report and the README claim; a README still to write
    edits,
    launches,    \* (history) how often each group's script was started
    usedHarness, \* (history) the harness version each group was measured with
    died         \* (history) a driver ended before its last save

campaignVars == <<dirs, disk, cam, tree, tables, doc, edits,
                  launches, usedHarness, died>>
vars == <<harnessVars, campaignVars>>

GroupNames == {GROUPS[i].name : i \in DOMAIN GROUPS}
specOf(n) == GROUPS[CHOOSE i \in DOMAIN GROUPS : GROUPS[i].name = n]

\* group_command: which script measures a group, and on what.
group_command(spec) ==
    [name |-> spec.name, script |-> IF spec.kind = "kv" THEN "strong" ELSE "http",
     runs |-> spec.runs]

ASSUME GroupsAssumption ==
    /\ \A i, j \in DOMAIN GROUPS : GROUPS[i].name = GROUPS[j].name => i = j
    /\ \A i \in DOMAIN GROUPS : group_command(GROUPS[i]) \in Jobs

\* No group of either campaign is a headline and a probe of overload.
ASSUME HeadlinesAssumption ==
    \A i \in DOMAIN GROUPS : ~(GROUPS[i].headline /\ GROUPS[i].overload)

-----------------------------------------------------------------------------
\* validate_group: what it says of one run, and of the group.

readable(d) == d \notin {NoResult, Torn}
drop_only_exit(spec, d) == spec.kind = "kv" /\ d.exit = 3 /\ d.dropped /\ ~d.errors

\* (Mutant) error.txt of a run with a result is never a problem.
excused_always(spec, d) == TRUE

\* error.txt is no problem when drops alone explain it.
excused(spec, d) ==
    d.dropped /\ ~d.errors /\ (d.exit = 0 \/ drop_only_exit(spec, d))

problem(spec, f) ==
    \/ ~readable(f.result)
    \/ LET d == f.result IN
       \/ d.errors \/ d.warmErrors \/ ~d.full
       \/ d.exit # 0 /\ ~drop_only_exit(spec, d)
       \/ spec.kind = "kv" /\ ~f.probe
       \/ f.error # "none" /\ ~excused(spec, d)

limitation(spec, run, f) ==
    /\ readable(f.result)
    /\ LET d == f.result IN
       \/ spec.kind = "kv" /\ d.dropped /\ ~spec.overload
       \/ spec.kind = "kv" /\ ~d.stable /\ ~run.cold /\ spec.headline
       \/ spec.fullHit /\ d.origins

valid(spec) == \A i \in DOMAIN spec.runs : ~problem(spec, files[spec.name][i])
validate_group(spec) ==
    [valid     |-> valid(spec),
     qualified |-> /\ valid(spec)
                   /\ \A i \in DOMAIN spec.runs :
                        ~limitation(spec, spec.runs[i], files[spec.name][i])]

\* summarize.py reads every result.json it finds and the cgroup files next to it.
summarizes(n) ==
    \A i \in DOMAIN files[n] :
        LET f == files[n][i] IN f.result # NoResult => f.result # Torn /\ f.cgroup

\* (Mutant) Only the raw results are compared.
evidenceChanged_raw(n, hashes) ==
    \E i \in DOMAIN files[n] : files[n][i].result # hashes.raw[i].result

\* evidence_hashes, and what a renderer notices of them: a file that is hashed
\* and now differs or is gone.  A file that came later is not looked for.
evidence_hashes(n, generated) == [raw |-> files[n], generated |-> generated]
fileChanged(h, f) ==
    \/ h.result # NoResult /\ f.result # h.result
    \/ h.error # "none" /\ f.error # h.error
    \/ h.probe /\ ~f.probe
evidenceChanged(n, hashes) ==
    \/ hashes.generated # "none" /\ tables[n] # hashes.generated
    \/ \E i \in DOMAIN files[n] : fileChanged(hashes.raw[i], files[n][i])

-----------------------------------------------------------------------------
\* The driver.

\* progress[name]: no entry, one that says running, or one with a verdict.
entry(status) == [status |-> status, valid |-> FALSE, qualified |-> FALSE,
                  evidence |-> NoFile]
Absent == entry("absent")
Running == entry("running")
isState(file) == file \notin {NoFile, Torn}

first_state ==
    [progress |-> [n \in GroupNames |-> Absent], tree |-> tree,
     finished |-> FALSE, valid |-> FALSE, qualified |-> FALSE]

NoDriver == [pc |-> "off", state |-> NoFile, group |-> 0]
Off == cam.pc = "off"
At(pc) == cam.pc = pc
goto(pc) == cam' = [cam EXCEPT !.pc = pc]
\* (Mutant) The copy is written first.
savesTo_swapped == IF cam.pc \in {"save_runs", "finish_runs"} THEN "results" ELSE "runs"

savesTo == IF cam.pc \in {"save_results", "finish_results"} THEN "results" ELSE "runs"
Saving == cam.pc \in {"save_first", "save_running", "save_runs", "save_results",
                      "finish_runs", "finish_results"}

\* run without --resume: the output paths must be new.
Start ==
    /\ Off /\ job = NoJob
    /\ dirs = {}
    /\ cam' = [pc |-> "mkdir_runs", state |-> first_state, group |-> 0]
    /\ UNCHANGED <<harnessVars, dirs, disk, tree, tables, doc, edits,
                   launches, usedHarness, died>>

\* (Mutants) An interrupted group, or an edited harness, is not looked for.
resumable_anyway(s) == isState(s) /\ s.tree = tree
resumable_edited(s) ==
    /\ isState(s)
    /\ s.tree.groups = tree.groups /\ s.tree.image = tree.image
    /\ \A n \in GroupNames : s.progress[n].status # "running"

\* run --resume: campaign.json must be readable, the harness, the definition and
\* the server image those it was started with, and no group half done.
resumable(s) ==
    /\ isState(s)
    /\ s.tree = tree
    /\ \A n \in GroupNames : s.progress[n].status # "running"

Resume ==
    /\ Off
    /\ resumable(disk.runs)
    /\ cam' = [pc |-> "next", state |-> disk.runs, group |-> 0]
    /\ UNCHANGED <<harnessVars, dirs, disk, tree, tables, doc, edits,
                   launches, usedHarness, died>>

Mkdir ==
    /\ \/ At("mkdir_runs") /\ dirs' = dirs \cup {"runs"} /\ goto("mkdir_results")
       \/ At("mkdir_results") /\ dirs' = dirs \cup {"results"} /\ goto("save_first")
    /\ UNCHANGED <<harnessVars, disk, tree, tables, doc, edits,
                   launches, usedHarness, died>>

\* save: write_text of the whole state dict.
afterSave(pc) ==
    CASE pc = "save_first"     -> "next"
      [] pc = "save_running"   -> "launch"
      [] pc = "save_runs"      -> "save_results"
      [] pc = "save_results"   -> "next"
      [] pc = "finish_runs"    -> "finish_results"

save ==
    /\ Saving
    /\ disk' = [disk EXCEPT ![savesTo] = cam.state]
    /\ IF At("finish_results") THEN cam' = NoDriver ELSE goto(afterSave(cam.pc))
    /\ UNCHANGED <<harnessVars, dirs, tree, tables, doc, edits,
                   launches, usedHarness, died>>

\* The first group that campaign.json does not name is marked running.
toDo == {i \in DOMAIN GROUPS : cam.state.progress[GROUPS[i].name] = Absent}

\* (Mutant) The mark is not saved before the script is started.
MarkRunning_unsaved ==
    /\ At("next")
    /\ \E i \in toDo :
       /\ \A k \in toDo : i <= k
       /\ cam' = [cam EXCEPT !.pc = "launch", !.group = i,
                             !.state.progress[GROUPS[i].name] = Running]
    /\ UNCHANGED <<harnessVars, dirs, disk, tree, tables, doc, edits,
                   launches, usedHarness, died>>

MarkRunning ==
    /\ At("next")
    /\ \E i \in toDo :
       /\ \A k \in toDo : i <= k
       /\ cam' = [cam EXCEPT !.pc = "save_running", !.group = i,
                             !.state.progress[GROUPS[i].name] = Running]
    /\ UNCHANGED <<harnessVars, dirs, disk, tree, tables, doc, edits,
                   launches, usedHarness, died>>

\* subprocess.run of the group's script, which may refuse at once.
spec == GROUPS[cam.group]
LaunchGroup ==
    /\ At("launch") /\ job = NoJob
    /\ \/ Launch(group_command(spec))
       \/ Refused(group_command(spec))
    /\ goto("wait")
    /\ launches' = [launches EXCEPT ![spec.name] = @ + 1]
    /\ usedHarness' = [usedHarness EXCEPT ![spec.name] = tree.harness]
    /\ UNCHANGED <<dirs, disk, tree, tables, doc, edits, died>>

\* (Mutant) The exit status of the script is not looked at.
conclusion_anyCode(n, code, summary) ==
    LET v == validate_group(specOf(n)) IN
    [status |-> "complete", valid |-> v.valid /\ summary, qualified |-> v.qualified,
     evidence |-> evidence_hashes(n, IF summary THEN "made" ELSE "none")]

\* The script has ended: summarize.py, validate_group, the hashes, the verdict.
conclusion(n, code, summary) ==
    LET v == validate_group(specOf(n))
        ok == code = 0 /\ summary
    IN [status    |-> "complete",
        valid     |-> v.valid /\ ok,
        qualified |-> v.qualified /\ ok,
        evidence  |-> evidence_hashes(n, IF summary THEN "made" ELSE "none")]

\* (Mutant) A script that failed ends the campaign.
Conclude_strict ==
    /\ At("wait") /\ job = NoJob
    /\ UNCHANGED tables
    /\ cam' = IF exitCode # 0 THEN NoDriver
              ELSE [cam EXCEPT !.pc = "save_runs",
                       !.state.progress[spec.name] =
                            conclusion(spec.name, exitCode, summarizes(spec.name))]
    /\ UNCHANGED <<harnessVars, dirs, disk, tree, doc, edits,
                   launches, usedHarness, died>>

Conclude ==
    /\ At("wait") /\ job = NoJob
    /\ LET n       == spec.name
           summary == summarizes(n)
       IN /\ tables' = IF summary THEN [tables EXCEPT ![n] = "made"] ELSE tables
          /\ cam' = [cam EXCEPT !.pc = "save_runs",
                                !.state.progress[n] = conclusion(n, exitCode, summary)]
    /\ UNCHANGED <<harnessVars, dirs, disk, tree, doc, edits,
                   launches, usedHarness, died>>

\* Every group is named in the progress: the campaign's own verdict.

\* (Mutant) The verdicts are taken again, with the last script's exit status.
Finish_again ==
    /\ At("next")
    /\ toDo = {}
    /\ cam' = [cam EXCEPT !.pc = "finish_runs", !.state.finished = TRUE,
                 !.state.progress = [n \in GroupNames |->
                     conclusion(n, exitCode, tables[n] # "none")]]
    /\ UNCHANGED <<harnessVars, dirs, disk, tree, tables, doc, edits,
                   launches, usedHarness, died>>

Finish ==
    /\ At("next")
    /\ toDo = {}
    /\ LET p == cam.state.progress IN
       cam' = [cam EXCEPT !.pc = "finish_runs",
                          !.state.finished  = TRUE,
                          !.state.valid     = \A n \in GroupNames : p[n].valid,
                          !.state.qualified = \A n \in GroupNames : p[n].qualified]
    /\ UNCHANGED <<harnessVars, dirs, disk, tree, tables, doc, edits,
                   launches, usedHarness, died>>

DriverStep == \/ Mkdir \/ save \/ MarkRunning \/ LaunchGroup \/ Conclude \/ Finish

\* The driver dies.  A save under way may be cut short, and a script it has
\* started may go on without it.
Die ==
    /\ ~Off
    /\ Fault
    /\ cam' = NoDriver
    /\ died' = TRUE
    /\ \/ UNCHANGED disk
       \/ Saving /\ disk' = [disk EXCEPT ![savesTo] = Torn]
    /\ UNCHANGED <<job, exitCode, containers, networks, files, trouble, measured,
                   dirs, tree, tables, doc, edits, launches, usedHarness>>

-----------------------------------------------------------------------------
\* The renderers.

\* render refuses a campaign that is not the one defined now, not finished or
\* not the one whose evidence lies in runs/, and it needs every group's runs.csv.
renderable ==
    /\ isState(disk.results)
    /\ disk.results.tree.groups = tree.groups
    /\ \A n \in GroupNames : disk.results.progress[n] # Absent
    /\ disk.results.finished
    /\ \A n \in GroupNames : ~evidenceChanged(n, disk.results.progress[n].evidence)
    /\ \A n \in GroupNames : tables[n] # "none"

\* The comparisons of the report: the groups that are compared and qualify, by
\* the raw files as they are now.
release_report ==
    {n \in GroupNames : specOf(n).compared /\ validate_group(specOf(n)).qualified}

\* The landscape report says of each compared group its order or `withheld'.
landscape_report ==
    LET compared == {n \in GroupNames : specOf(n).compared}
        withheld == {n \in compared : ~validate_group(specOf(n)).qualified}
    IN compared \ withheld

report == IF Edition = "release" THEN release_report ELSE landscape_report

\* The headlines of the README: all of the headline groups, or none.
headlines == {n \in GroupNames : specOf(n).headline}
readme_headlines ==
    IF \A n \in headlines : validate_group(specOf(n)).qualified THEN headlines ELSE {}

\* What summary.json and runs.csv say of a group: the files as summarize.py found
\* them, when the group's script had ended.
summarized(n) == disk.results.progress[n].evidence.raw
failed_runs(n) ==
    {i \in DOMAIN summarized(n) :
        summarized(n)[i].result = NoResult \/ summarized(n)[i].error # "none"}
rows(n) == {i \in DOMAIN summarized(n) : readable(summarized(n)[i].result)}

\* The release renderer raises, and writes nothing, when a headline group that
\* qualifies by its raw files has a summary with failed or missing runs or with
\* errors, or origin requests where the README says there were none.
unsupported(n) ==
    \/ failed_runs(n) # {}
    \/ rows(n) # DOMAIN specOf(n).runs
    \/ \E i \in rows(n) : LET d == summarized(n)[i].result IN
          d.errors \/ (specOf(n).fullHit /\ d.origins)
readme_raises ==
    /\ Edition = "release"
    /\ \E n \in readme_headlines : unsupported(n)

\* main: the report is written first, then the README.
WriteReport ==
    /\ Off /\ renderable
    /\ ~readme_raises
    /\ doc' = [doc EXCEPT !.report = report, !.pending = readme_headlines]
    /\ doc' # doc
    /\ UNCHANGED <<harnessVars, dirs, disk, cam, tree, tables, edits,
                   launches, usedHarness, died>>

WriteReadme ==
    /\ doc.pending # NoDoc
    /\ doc' = [doc EXCEPT !.readme = doc.pending, !.pending = NoDoc]
    /\ UNCHANGED <<harnessVars, dirs, disk, cam, tree, tables, edits,
                   launches, usedHarness, died>>

\* The renderer is stopped between the two.
RendererStopped ==
    /\ doc.pending # NoDoc
    /\ Fault
    /\ doc' = [doc EXCEPT !.pending = NoDoc]
    /\ UNCHANGED <<job, exitCode, containers, networks, files, trouble, measured,
                   dirs, disk, cam, tree, tables, edits, launches, usedHarness, died>>

\* --check.
CheckPasses ==
    /\ renderable /\ ~readme_raises
    /\ doc.report = report
    /\ doc.readme = readme_headlines

-----------------------------------------------------------------------------
\* What people do between two driver processes.

Edit == edits < MaxEdits /\ edits' = edits + 1

\* (An edit before the campaign starts is its starting point.)
EditSource ==
    /\ Off /\ job = NoJob /\ dirs # {}
    /\ Edit
    /\ \E what \in DOMAIN tree : tree' = [tree EXCEPT ![what] = @ + 1]
    /\ UNCHANGED <<harnessVars, dirs, disk, cam, tables, doc,
                   launches, usedHarness, died>>

\* What a group's script left is tampered with, by hand or by a second use of a
\* script: a table or a result is replaced, error.txt is removed, or a result or
\* the probe's answer is put where there was none.
handmade(n, f) ==
    {[f EXCEPT !.result = o] : o \in Outcomes(group_command(specOf(n)).script)}
    \cup {[f EXCEPT !.error = "none"], [f EXCEPT !.probe = TRUE]}
EditEvidence ==
    /\ Off /\ job = NoJob
    /\ Edit
    /\ \E n \in GroupNames :
       \/ /\ tables[n] = "made"
          /\ tables' = [tables EXCEPT ![n] = "changed"]
          /\ UNCHANGED files
       \/ /\ launches[n] > 0
          /\ \E i \in DOMAIN files[n] : \E f \in handmade(n, files[n][i]) :
                f # files[n][i] /\ files' = [files EXCEPT ![n][i] = f]
          /\ UNCHANGED tables
    /\ UNCHANGED <<job, exitCode, containers, networks, faults, trouble, measured,
                   dirs, disk, cam, tree, doc, launches, usedHarness, died>>

\* One of the other scripts is used instead of a campaign.
RunByHand ==
    /\ Off /\ dirs = {}
    /\ \E j \in Jobs : j.name \notin GroupNames /\ Launch(j)
    /\ goto("by_hand")
    /\ UNCHANGED <<dirs, disk, tree, tables, doc, edits, launches, usedHarness, died>>

Init ==
    /\ HarnessInit
    /\ dirs = {}
    /\ disk = [runs |-> NoFile, results |-> NoFile]
    /\ tree = [harness |-> 0, groups |-> 0, image |-> 0]
    /\ cam = NoDriver
    /\ tables = [n \in GroupNames |-> "none"]
    /\ doc = [report |-> NoDoc, readme |-> NoDoc, pending |-> NoDoc]
    /\ edits = 0
    /\ launches = [n \in GroupNames |-> 0]
    /\ usedHarness = [n \in GroupNames |-> 0]
    /\ died = FALSE

Script == HarnessStep /\ UNCHANGED campaignVars
LeftoverEnds == HelperEnds /\ UNCHANGED campaignVars
ScriptKilled == HarnessKilled /\ UNCHANGED campaignVars

Next == \/ Start \/ Resume \/ DriverStep \/ Die
        \/ Script \/ ScriptKilled \/ LeftoverEnds \/ RunByHand
        \/ WriteReport \/ WriteReadme \/ RendererStopped
        \/ EditSource \/ EditEvidence

Spec == Init /\ [][Next]_vars

\* The driver goes on while it lives and its script while it lives: every docker
\* call has a timeout, every wait a deadline.
FairSpec == Spec /\ WF_vars(DriverStep) /\ WF_vars(Script)

-----------------------------------------------------------------------------
\* No measurement is repeated: whatever dies, and however often the campaign is
\* resumed, no group's script is started twice into the same output path
\* (release_campaign.py:205 "no repetitions are rerun").
MeasuredOnce == \A n \in GroupNames : launches[n] <= 1

\* A finished campaign has measured every group to its end: a group that was
\* interrupted is neither rerun nor passed over (release_campaign.py:234-236).
FinishedMeansMeasured ==
    \A file \in {disk.runs, disk.results} :
        isState(file) /\ file.finished =>
            \A n \in GroupNames : file.progress[n].status = "complete" /\ launches[n] = 1

\* A group recorded as valid has for each of its runs a measurement without
\* request errors, taken after the correctness probe, with the cgroup samples and,
\* for a file tier, the size of its file (release_campaign.py:106-173, 275-278).
ValidMeansMeasured ==
    isState(disk.runs) => \A n \in GroupNames :
        disk.runs.progress[n].valid =>
            \A i \in DOMAIN specOf(n).runs :
                LET d == measured[n][i]  f == disk.runs.progress[n].evidence.raw[i] IN
                /\ d # NoResult /\ f.result = d
                /\ ~d.errors /\ (d.exit = 0 \/ d.dropped)
                /\ specOf(n).kind = "kv" => f.probe
                /\ f.cgroup
                /\ specOf(n).runs[i].engine \in FILE_TIER_ENGINES => f.flash = "recorded"

\* All groups of a campaign were measured by the scripts whose hashes it records,
\* although it was stopped, the tree edited and the campaign resumed
\* (release_campaign.py:226-229).
OneHarness ==
    isState(disk.runs) => \A n \in GroupNames :
        launches[n] > 0 => usedHarness[n] = disk.runs.tree.harness

\* The copy in the results never says more than runs/campaign.json does: a reader
\* of the results sees no verdict that a resumed driver would not know
\* (release_campaign.py:281-282, 287-288).
ResultsBehindRuns ==
    isState(disk.results) /\ isState(disk.runs) =>
        /\ disk.results.finished => disk.runs.finished
        /\ \A n \in GroupNames :
              disk.results.progress[n].status = "complete" =>
                  disk.runs.progress[n].status = "complete"

\* A verdict once written is never changed or lost by a later save; only a save
\* that is cut short can lose it (release_campaign.py:261-264).
VerdictsAreFinal ==
    [][isState(disk.runs) /\ isState(disk'.runs) =>
          \A n \in GroupNames : disk.runs.progress[n].status = "complete" =>
              disk'.runs.progress[n] = disk.runs.progress[n]]_vars

\* When --check passes, no group the report or the README makes a claim about has
\* had its tables or a recorded result changed since its verdict, and every run
\* whose result was recorded measured it without errors, drops or origin requests
\* that the claim excludes.  A result.json put there after the verdict is not noticed
\* by the hashes, so the report's comparisons may rest on one; the headlines of
\* the release README may not, because its summary has to be complete
\* (render_release_report.py:70-78, 152-159).
CheckedClaimsBacked ==
    CheckPasses => \A n \in doc.report \cup doc.readme :
        /\ tables[n] = "made"
        /\ launches[n] = 1
        /\ \A i \in DOMAIN specOf(n).runs :
              LET d == measured[n][i]  h == summarized(n)[i] IN
              /\ n \in doc.readme /\ Edition = "release" => h.result # NoResult
              /\ h.result # NoResult =>
                    /\ d # NoResult /\ d = files[n][i].result
                    /\ ~d.errors
                    /\ specOf(n).overload \/ ~d.dropped
                    /\ specOf(n).fullHit => ~d.origins

\* The two accounts the release renderer takes of a headline group, the raw files
\* and the summary made of them, agree: a finished campaign whose evidence nobody
\* changed or added to can always be published (render_release_report.py:70-78).
NoResultAdded ==
    \A n \in GroupNames : \A i \in DOMAIN summarized(n) :
        summarized(n)[i].result = NoResult => files[n][i].result = NoResult
SummaryAgrees == renderable /\ NoResultAdded => ~readme_raises

\* A driver that is not killed gets through all groups, whatever fails in them,
\* and leaves a finished copy (release_campaign.py:261-290).
FinishesUnlessDied ==
    (cam.pc \notin {"off", "by_hand"}) ~>
        (died \/ (isState(disk.results) /\ disk.results.finished))

\* What the reports say of a group that failed: "affected measurements are retained
\* below and do not support claims" (render_landscape_report.py:258-259, and with
\* the word release before claims render_release_report.py:169).
FailedGroupsClaimNothing ==
    doc.report # NoDoc /\ isState(disk.results) =>
        \A n \in GroupNames : ~disk.results.progress[n].valid => n \notin doc.report
=============================================================================
