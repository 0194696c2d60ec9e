----------------------------- MODULE Registration -----------------------------
(***************************************************************************)
(* The script that registers the DirectInput driver and removes it again   *)
(* (src/scripts/Register-G25StandaloneFF.ps1).  It exports the keys it     *)
(* finds, writes a state file, overwrites the keys; and later deletes      *)
(* them, imports what it had exported, and removes the file.  The script   *)
(* can be cut off between any two steps, and is then started again, with   *)
(* the same action or the other one.                                       *)
(*                                                                         *)
(* A key that the script has written to is "ours", as a whole or mixed     *)
(* with what it held.                                                      *)
(***************************************************************************)
EXTENDS Integers, Sequences

CONSTANTS
    None,           \* no state file
    Torn,           \* a state file that is not JSON
    Empty,          \* a state file with nothing in it, which is read as one that says nothing
    MaxRuns         \* bound: times the script is started

OEMKeys == {"oem32", "oem64"}

Keys == {"com32", "com64"} \cup OEMKeys

\* What a state file says: the keys that existed, and those whose export succeeded.
States == [existed : SUBSET Keys, backup : SUBSET Keys]

ASSUME RegistrationAssumption ==
    /\ MaxRuns \in Nat
    /\ None # Torn /\ None # Empty /\ Torn # Empty
    /\ {None, Torn, Empty} \cap States = {}

VARIABLES
    shared,         \* Windows keeps one OEM key for both registry views
    original,       \* the registry before the first installation
    registry,
    stateFile,      \* directinput-registration.json: the keys that existed, those exported
    exported,       \* the keys in the backup directory of this run
    kept,           \* the keys of which some backup directory holds what they held at first
    script,         \* what the script is doing: "install", "uninstall" or "nothing"
    step,           \* the number of its next step
    runs,           \* times the script was started
    failed,         \* a reg.exe failed, which the script does not notice
    misread         \* a removal has gone by an empty state file

vars == <<shared, original, registry, stateFile, exported, kept, script, step, runs, failed, misread>>

Init ==
    /\ shared \in BOOLEAN
    /\ original \in [Keys -> {"absent", "old"}]
    /\ shared => original["oem32"] = original["oem64"]
    /\ registry = original
    /\ stateFile = None
    /\ exported = {} /\ kept = {}
    /\ script = "nothing" /\ step = 1
    /\ runs = 0
    /\ failed = FALSE /\ misread = FALSE

-----------------------------------------------------------------------------
(* The script, as the list of its steps. *)

Work(op, key) == [op |-> op, key |-> key]

\* Mutant: the state file is written when all is done.
InstallWorkSavesLast ==
    <<Work("export", "oem32"), Work("export", "com32"),
      Work("export", "oem64"), Work("export", "com64"),
      Work("register", "com32"), Work("register", "oem32"),
      Work("register", "com64"), Work("register", "oem64"),
      Work("save", "none")>>

InstallWork ==
    <<Work("export", "oem32"), Work("export", "com32"),
      Work("export", "oem64"), Work("export", "com64"),
      Work("save", "none"),
      Work("register", "com32"), Work("register", "oem32"),
      Work("register", "com64"), Work("register", "oem64")>>

UninstallWork ==
    <<Work("remove", "com32"), Work("remove", "oem32"),
      Work("import", "com32"), Work("import", "oem32"),
      Work("remove", "com64"), Work("remove", "oem64"),
      Work("import", "com64"), Work("import", "oem64"),
      Work("forget", "none")>>

LastStep == 9

Now == IF script = "install" THEN InstallWork[step] ELSE UninstallWork[step]

Key == Now.key

Existing == {key \in Keys : registry[key] # "absent"}

Start(action) == script' = action /\ step' = 1

\* What Test-Path and Test-Key find is what the state file will say.
Install ==
    /\ script = "nothing" /\ runs < MaxRuns
    /\ runs' = runs + 1
    /\ Start(IF stateFile = None THEN "install" ELSE "nothing")
    /\ exported' = {}
    /\ UNCHANGED <<shared, original, registry, stateFile, kept, failed, misread>>

\* No file, or one that ConvertFrom-Json refuses, ends the script; of an empty file it makes
\* nothing, without an error.
Uninstall ==
    /\ script = "nothing" /\ runs < MaxRuns
    /\ runs' = runs + 1
    /\ Start(IF stateFile \in {None, Torn} THEN "nothing" ELSE "uninstall")
    /\ misread' = (misread \/ stateFile = Empty)
    /\ UNCHANGED <<shared, original, registry, stateFile, exported, kept, failed>>

\* What a removal takes from its state file; a field of nothing is nothing.
State == IF stateFile = Empty THEN [existed |-> {}, backup |-> {}] ELSE stateFile

\* The next step is op, and is taken.
Does(op) ==
    /\ script # "nothing" /\ Now.op = op
    /\ IF step = LastStep THEN Start("nothing") ELSE step' = step + 1 /\ UNCHANGED script
    /\ UNCHANGED <<shared, original, runs, misread>>

Written(value) ==
    [key \in Keys |->
        IF key = Key \/ (shared /\ {key, Key} \subseteq OEMKeys) THEN value ELSE registry[key]]

Put(value) == registry' = Written(value)

\* Every run has a backup directory of its own, named for the time, and none is ever removed.
Export ==
    /\ Does("export")
    /\ \/ /\ Key \in Existing
          /\ exported' = exported \cup {Key}
          /\ kept' = IF registry[Key] = "old" THEN kept \cup {Key} ELSE kept
          /\ UNCHANGED failed
       \/ Key \in Existing /\ failed' = TRUE /\ UNCHANGED <<exported, kept>>
       \/ Key \notin Existing /\ UNCHANGED <<exported, kept, failed>>
    /\ UNCHANGED <<registry, stateFile>>

\* The keys whose export was due are those that existed.
Save ==
    /\ Does("save")
    /\ stateFile' = [existed |-> Existing, backup |-> exported]
    /\ UNCHANGED <<registry, exported, kept, failed>>

Register ==
    /\ Does("register")
    /\ Put("ours")
    /\ UNCHANGED <<stateFile, exported, kept, failed>>

Remove ==
    /\ Does("remove")
    /\ Put("absent")
    /\ UNCHANGED <<stateFile, exported, kept, failed>>

Import ==
    /\ Does("import")
    /\ \/ Key \in State.existed \cap State.backup /\ Put("old") /\ UNCHANGED failed
       \/ Key \in State.existed /\ failed' = TRUE /\ UNCHANGED registry
       \/ Key \notin State.existed /\ UNCHANGED <<registry, failed>>
    /\ UNCHANGED <<stateFile, exported, kept>>

\* Mutant: the backup is removed with the state file.
ForgetTidies ==
    /\ Does("forget")
    /\ stateFile' = None /\ kept' = {}
    /\ UNCHANGED <<registry, exported, failed>>

Forget ==
    /\ Does("forget")
    /\ stateFile' = None
    /\ UNCHANGED <<registry, exported, kept, failed>>

Writes ==
    \/ Now.op \in {"register", "remove"}
    \/ Now.op = "import" /\ Key \in State.existed \cap State.backup

\* The script is cut off: an error it stops at, a closed window, a power cut; also while
\* it writes a key, or the state file, which Set-Content has created empty by then.
CutOff ==
    /\ script # "nothing"
    /\ \/ UNCHANGED <<registry, stateFile>>
       \/ Now.op = "save" /\ stateFile' \in {Torn, Empty} /\ UNCHANGED registry
       \/ Writes /\ Put("ours") /\ UNCHANGED stateFile
    /\ Start("nothing")
    /\ UNCHANGED <<shared, original, exported, kept, runs, failed, misread>>

Next == Install \/ Uninstall \/ Export \/ Save \/ Register \/ Remove \/ Import \/ Forget \/ CutOff

Spec == Init /\ [][Next]_vars

-----------------------------------------------------------------------------
(* Properties. *)

\* "To remove the registration and restore whatever registry state existed before
\* installation" (README.md:133): when no registration is left, and no reg.exe has failed,
\* the registry is as it was.
RemovalRestoresAll ==
    ~failed /\ script = "nothing" /\ stateFile = None => registry = original

\* Wherever and however often the script is cut off: without a state that can be read the
\* registry is as it was, and with one everything that is not as it was can be restored by a
\* removal (lines 167-184); unless a reg.exe failed or a removal went by an empty file.
Restorable ==
    ~failed /\ ~misread =>
        IF stateFile \in {None, Torn, Empty}
        THEN registry = original
        ELSE \A key \in Keys :
                /\ original[key] = "old" <=> key \in stateFile.existed
                /\ original[key] = "old" => key \in stateFile.backup

\* Also when a removal went by an empty file, what a key held at first is where it was or in
\* one of the backup directories (lines 132-151), from where a user can import it.
NothingIsBeyondRecovery ==
    ~failed => \A key \in Keys : original[key] = "old" => registry[key] = "old" \/ key \in kept

\* Nothing that was there before the first installation is lost: a removal can restore it, or
\* has, unless one went by an empty file; and in any case it can still be recovered.
NothingIsLost == Restorable /\ NothingIsBeyondRecovery
=============================================================================
