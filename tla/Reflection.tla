------------------------------ MODULE Reflection ------------------------------
(***************************************************************************)
(* reflection/orchestrator.py: the nightly session that edits the bot.     *)
(*                                                                         *)
(* reflect() commits everything in the working tree and tags the commit,   *)
(* lets a coding agent loose on the tree, runs the test suite on whatever  *)
(* it left there, and resets to the tag when the agent ran out of time or  *)
(* a test failed.  The bot itself loads its code from the same tree, each  *)
(* time its process starts.                                                *)
(*                                                                         *)
(* The tree is the set of changes present in it.  A change is `tracked'    *)
(* when git knows its file (modified, staged or committed) and `stray'     *)
(* when it sits in a new file nobody has added: git reset leaves those     *)
(* alone.  The test suite fails exactly when a broken change is present.   *)
(*                                                                         *)
(* A night leaves two records: the row reflect() writes of an accepted one *)
(* in mall["reflections"], and the entry its prompt has the agent itself   *)
(* write under .hedger/reflections, which git ignores.  Both are stood for *)
(* by the changes they cover.                                              *)
(***************************************************************************)
CONSTANTS
  AgentChanges,  \* what the agent may come up with
  HumanChanges,  \* what a person may change in the same tree
  Broken,        \* agent changes that make a test fail
  Env            \* which mishaps this instance allows

Mishaps == {"new_file", "timeout", "not_installed", "snapshot_error",
            "rollback_error", "orphan", "crash", "human_during"}

ASSUME ReflectionAssumption ==
  /\ AgentChanges \cap HumanChanges = {}
  /\ Broken \subseteq AgentChanges
  /\ Env \subseteq Mishaps

VARIABLES
  tracked,   \* changes in files git tracks, committed or not
  stray,     \* changes in files that were never added
  tag,       \* contents of the commit the latest reflect-* tag points to
  pc,        \* where reflect() is
  loaded,    \* contents of the tree when the bot's process started
  orphans,   \* may processes of a killed session be running still
  recorded,  \* what the rows of mall["reflections"] were written for
  entries,   \* what the agent's own entries in .hedger/reflections cover
  made,      \* history: changes made so far; each is made once
  owed,      \* history: changes a person made while no session ran
  vetted,    \* history: changes that were in the tree when the suite passed
  escaped    \* history: changes left in the tree that no gate has seen or stopped

treeVars == <<tracked, stray>>
histVars == <<made, owed, vetted, escaped>>
recordVars == <<recorded, entries>>
vars == <<treeVars, tag, pc, loaded, orphans, recordVars, histVars>>

Changes == AgentChanges \cup HumanChanges
Tree == tracked \cup stray

-------------------------------------------------------------------------------
(* The people and the agent working on the tree (outside the repository).  *)

Put(c) ==
  /\ c \notin made
  /\ made' = made \cup {c}
  /\ \/ tracked' = tracked \cup {c} /\ UNCHANGED stray
     \/ "new_file" \in Env /\ stray' = stray \cup {c} /\ UNCHANGED tracked

HumanChange(c) ==
  /\ c \in HumanChanges
  /\ pc = "idle" \/ "human_during" \in Env
  /\ Put(c)
  /\ owed' = IF pc = "idle" THEN owed \cup {c} ELSE owed
  /\ UNCHANGED <<tag, pc, loaded, orphans, recordVars, vetted, escaped>>

AgentChange(c) ==
  /\ c \in AgentChanges
  /\ pc = "session"
  /\ Put(c)
  /\ UNCHANGED <<tag, pc, loaded, orphans, recordVars, owed, vetted, escaped>>

\* The agent, or what outlived it, is at work.
AtWork == pc = "session" \/ orphans = "some"

\* It commits: its new files are tracked from here on.
AgentCommit ==
  /\ AtWork
  /\ tracked' = Tree /\ stray' = {}
  /\ UNCHANGED <<tag, pc, loaded, orphans, recordVars, histVars>>

\* Step 4 of the prompt: an entry on a change of the session, in an ignored file.
AgentEntry(c) ==
  /\ AtWork
  /\ c \in (AgentChanges \cap Tree) \ tag
  /\ entries' = entries \cup {c}
  /\ UNCHANGED <<treeVars, tag, pc, loaded, orphans, recorded, histVars>>

\* A process outlives its session and still writes to the tree: on a timeout only
\* the agent's own process is killed, when reflect() dies not even that.
OrphanChange(c) ==
  /\ c \in AgentChanges
  /\ orphans = "some" /\ pc # "session"
  /\ Put(c)
  /\ escaped' = escaped \cup {c}
  /\ UNCHANGED <<tag, pc, loaded, orphans, recordVars, owed, vetted>>

-------------------------------------------------------------------------------
(* reflect().                                                              *)

\* snapshot: git add -A, git commit, git tag -f.
Snapshot ==
  /\ pc = "idle"
  /\ tracked' = Tree /\ stray' = {}
  /\ tag' = Tree
  /\ pc' = "ready"
  /\ UNCHANGED <<loaded, orphans, recordVars, histVars>>

\* Mutant: a failing commit is swallowed and the session runs all the same, as
\* it did until 2026-10-21.
SnapshotErrorSwallowed ==
  /\ "snapshot_error" \in Env
  /\ pc = "idle"
  /\ tracked' = Tree /\ stray' = {}
  /\ pc' = "ready"
  /\ UNCHANGED <<tag, loaded, orphans, recordVars, histVars>>

\* Any of the three git calls fails: no session.  The files are staged or not.
SnapshotError ==
  /\ "snapshot_error" \in Env
  /\ pc = "idle"
  /\ \/ UNCHANGED treeVars
     \/ tracked' = Tree /\ stray' = {}
  /\ UNCHANGED <<tag, pc, loaded, orphans, recordVars, histVars>>

\* A dry run, or the agent's command is not found: the snapshot is all there is.
NotInstalled ==
  /\ "not_installed" \in Env
  /\ pc = "ready"
  /\ pc' = "idle"
  /\ UNCHANGED <<treeVars, tag, loaded, orphans, recordVars, histVars>>

Spawn ==
  /\ pc = "ready"
  /\ pc' = "session"
  /\ UNCHANGED <<treeVars, tag, loaded, orphans, recordVars, histVars>>

\* The agent exits, with any return code and at any cost.
AgentDone ==
  /\ pc = "session"
  /\ pc' = "gate"
  /\ UNCHANGED <<treeVars, tag, loaded, orphans, recordVars, histVars>>

\* rollback: git reset --hard tag.  Untracked files stay where they are.  If git
\* refuses (an index.lock left by a killed git), reflect raises and nothing is reset.
Rollback ==
  /\ pc' = "idle"
  /\ \/ /\ tracked' = tag
        /\ escaped' = escaped \cup stray
     \/ /\ "rollback_error" \in Env
        /\ escaped' = escaped \cup Tree
        /\ UNCHANGED tracked
  /\ UNCHANGED <<stray, tag, loaded, recordVars, made, owed, vetted>>

\* Mutant: on a timeout the tree is left as it is.
TimeoutKeepsTree ==
  /\ "timeout" \in Env
  /\ pc = "session"
  /\ pc' = "idle"
  /\ UNCHANGED <<treeVars, tag, loaded, orphans, recordVars, histVars>>

Timeout ==
  /\ "timeout" \in Env
  /\ pc = "session"
  /\ Rollback
  /\ orphans' = IF "orphan" \in Env THEN "some" ELSE orphans

GatePasses ==
  /\ pc = "gate"
  /\ Tree \cap Broken = {}
  /\ pc' = "record"
  /\ vetted' = vetted \cup Tree
  /\ UNCHANGED <<treeVars, tag, loaded, orphans, recordVars, made, owed, escaped>>

GateFails ==
  /\ pc = "gate"
  /\ Tree \cap Broken # {}
  /\ Rollback
  /\ UNCHANGED orphans

\* Mutant: the record holds the tree as a single entry.
RecordNested ==
  /\ pc = "record"
  /\ pc' = "idle"
  /\ recorded' = recorded \cup {Tree}
  /\ UNCHANGED <<treeVars, tag, loaded, orphans, entries, histVars>>

\* mall["reflections"][(day, "session")] = record.
Record ==
  /\ pc = "record"
  /\ pc' = "idle"
  /\ recorded' = recorded \cup Tree
  /\ UNCHANGED <<treeVars, tag, loaded, orphans, entries, histVars>>

\* The process stops at any time, a session going on or not, and is started
\* again: it loads what is in the tree.  The agent of a session may outlive it.
Restart ==
  /\ pc = "idle" \/ "crash" \in Env
  /\ pc' = "idle"
  /\ loaded' = Tree
  /\ escaped' = IF pc \in {"session", "gate"} THEN escaped \cup Tree ELSE escaped
  /\ orphans' \in IF pc = "session" /\ "orphan" \in Env THEN {orphans, "some"}
                                                    ELSE {orphans}
  /\ UNCHANGED <<treeVars, tag, recordVars, made, owed, vetted>>

-------------------------------------------------------------------------------
Init ==
  /\ tracked = {} /\ stray = {} /\ tag = {}
  /\ pc = "idle" /\ loaded = {} /\ orphans = "none"
  /\ recorded = {} /\ entries = {}
  /\ made = {} /\ owed = {} /\ vetted = {} /\ escaped = {}

Outside ==
  \E c \in Changes :
    HumanChange(c) \/ AgentChange(c) \/ AgentEntry(c) \/ OrphanChange(c)

Reflect ==
  \/ Snapshot \/ SnapshotError \/ NotInstalled \/ Spawn \/ AgentDone \/ Timeout
  \/ GatePasses \/ GateFails \/ Record

Next == Outside \/ AgentCommit \/ Reflect \/ Restart

Spec == Init /\ [][Next]_vars

-------------------------------------------------------------------------------
(* Properties.                                                             *)

TypeOK ==
  /\ {tracked, stray, tag, loaded, recorded, entries, made, owed, vetted, escaped}
       \subseteq SUBSET Changes
  /\ tracked \cap stray = {}
  /\ pc \in {"idle", "ready", "session", "gate", "record"}
  /\ orphans \in {"none", "some"}

\* What a person changed while no session was running is never lost, whatever the
\* nights after it do: rejected and timed-out sessions, failing git calls and
\* restarts (snapshot's "rollback would silently discard the uncommitted work").
HumanWorkSurvives == owed \subseteq Tree

\* The bot runs agent code only if the test suite passed with it, or if it got
\* around the gate in one of these ways: in a new file a rollback left behind, by
\* a rollback that failed, by a restart before the gate, or from a process that
\* outlived its session.
OnlyGatedCodeRuns == loaded \cap AgentChanges \subseteq vetted \cup escaped

\* What an accepted night covers is never lost, whatever the nights after it do:
\* its changes need not be committed when the next session starts, and a rollback
\* of that one must not take them (snapshot, rollback).
AcceptedWorkSurvives == recorded \subseteq Tree

\* Why a file is never both: a new file is younger than the tag.
FreshInv == Tree \cup tag \subseteq made /\ tag \cap stray = {}

\* Why HumanWorkSurvives and AcceptedWorkSurvives hold: the tag a session may be
\* reset to has it all.
TagInv ==
  /\ owed \cup recorded \subseteq Tree
  /\ pc \in {"ready", "session", "gate"} => owed \cup recorded \subseteq tag

\* Why OnlyGatedCodeRuns holds: outside a session all agent code in the tree is gated
\* or escaped, and so is everything in the tag.
GateInv ==
  /\ OnlyGatedCodeRuns
  /\ tag \cap AgentChanges \subseteq vetted \cup escaped
  /\ pc \in {"idle", "ready", "record"} => Tree \cap AgentChanges \subseteq vetted \cup escaped

===============================================================================
