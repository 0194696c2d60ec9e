--------------------------- MODULE RegistrationProofs ---------------------------
(***************************************************************************)
(* Proofs about Registration.  The invariant follows the script step by    *)
(* step: what an installation has exported before it writes its state      *)
(* file, which keys a removal has cleared and put back, and what is in     *)
(* some backup however a state file is read.                               *)
(***************************************************************************)
EXTENDS Registration, TLAPS

-----------------------------------------------------------------------------
(* The inductive invariant. *)

TypeOK ==
    /\ shared \in BOOLEAN
    /\ original \in [Keys -> {"absent", "old"}]
    /\ registry \in [Keys -> {"absent", "old", "ours"}]
    /\ stateFile \in {None, Torn, Empty} \cup States
    /\ exported \in SUBSET Keys
    /\ kept \in SUBSET Keys
    /\ script \in {"nothing", "install", "uninstall"}
    /\ step \in 1 .. LastStep
    /\ failed \in BOOLEAN
    /\ misread \in BOOLEAN

\* The two views of the OEM key are one where Windows shares it.
SharedIsOne ==
    shared => /\ original["oem32"] = original["oem64"]
              /\ registry["oem32"] = registry["oem64"]

\* An installation writes to the registry only when it has its state file, and a removal
\* starts from one, or goes by an empty one.
FileComesFirst ==
    /\ script = "install" => (step > 5 <=> stateFile \in States)
    /\ script = "install" => stateFile \notin {Torn, Empty}
    /\ script = "uninstall" =>
           stateFile \in States \cup {Empty} /\ (stateFile = Empty => misread)

\* The step an installation exports the key at.
ExportStep(key) ==
    IF key = "oem32" THEN 1
    ELSE IF key = "com32" THEN 2
    ELSE IF key = "oem64" THEN 3
    ELSE 4

\* What an installation has passed is exported.
ExportsAreDone ==
    script = "install" /\ step <= 5 =>
        \A key \in Keys :
            original[key] = "old" /\ ExportStep(key) < step => key \in exported

\* Whether what the key held is in a backup directory, if it held anything.
Saved(key) == original[key] = "old" => key \in kept

\* A state file, of whatever kind, is there only when everything has been saved; on the way
\* to it an installation has saved what it has passed.
SavedFirst ==
    /\ stateFile # None => \A key \in Keys : Saved(key)
    /\ script = "install" => \A key \in Keys : ExportStep(key) < step => Saved(key)

\* What a removal has passed is absent, and then as it was.
RemovalRestores ==
    script = "uninstall" =>
        /\ step \in {2, 3} => registry["com32"] = "absent"
        /\ step >= 4 => registry["com32"] = original["com32"]
        /\ step \in {3, 4} => registry["oem32"] = "absent"
        /\ step >= 5 /\ ~(shared /\ step > 6)
              => registry["oem32"] = original["oem32"]
        /\ step \in {6, 7} => registry["com64"] = "absent"
        /\ step >= 8 => registry["com64"] = original["com64"]
        /\ step \in {7, 8} => registry["oem64"] = "absent"
        /\ step = 9 => registry["oem64"] = original["oem64"]

Inv ==
    /\ TypeOK
    /\ SharedIsOne
    /\ FileComesFirst
    /\ ~failed /\ ~misread => ExportsAreDone /\ RemovalRestores
    /\ Restorable

\* What does not depend on how a state file is read.
SavedInv == (~failed => SavedFirst) /\ NothingIsBeyondRecovery

-----------------------------------------------------------------------------
(* The script, step by step. *)

\* The steps of an installation, one by one.
LEMMA InstallSteps ==
    ASSUME script = "install"
    PROVE  /\ step = 1 => Now.op = "export" /\ Key = "oem32"
           /\ step = 2 => Now.op = "export" /\ Key = "com32"
           /\ step = 3 => Now.op = "export" /\ Key = "oem64"
           /\ step = 4 => Now.op = "export" /\ Key = "com64"
           /\ step = 5 => Now.op = "save" /\ Key = "none"
           /\ step = 6 => Now.op = "register" /\ Key = "com32"
           /\ step = 7 => Now.op = "register" /\ Key = "oem32"
           /\ step = 8 => Now.op = "register" /\ Key = "com64"
           /\ step = 9 => Now.op = "register" /\ Key = "oem64"
<1>1. /\ InstallWork[1] = Work("export", "oem32")
      /\ InstallWork[2] = Work("export", "com32")
      /\ InstallWork[3] = Work("export", "oem64")
      /\ InstallWork[4] = Work("export", "com64")
      /\ InstallWork[5] = Work("save", "none")
      /\ InstallWork[6] = Work("register", "com32")
      /\ InstallWork[7] = Work("register", "oem32")
      /\ InstallWork[8] = Work("register", "com64")
      /\ InstallWork[9] = Work("register", "oem64")
  BY DEF InstallWork
<1>2. /\ InstallWork[1].op = "export" /\ InstallWork[1].key = "oem32"
      /\ InstallWork[2].op = "export" /\ InstallWork[2].key = "com32"
      /\ InstallWork[3].op = "export" /\ InstallWork[3].key = "oem64"
      /\ InstallWork[4].op = "export" /\ InstallWork[4].key = "com64"
      /\ InstallWork[5].op = "save" /\ InstallWork[5].key = "none"
      /\ InstallWork[6].op = "register" /\ InstallWork[6].key = "com32"
      /\ InstallWork[7].op = "register" /\ InstallWork[7].key = "oem32"
      /\ InstallWork[8].op = "register" /\ InstallWork[8].key = "com64"
      /\ InstallWork[9].op = "register" /\ InstallWork[9].key = "oem64"
  BY <1>1 DEF Work
<1>3. /\ step = 1 => Now = InstallWork[1]
      /\ step = 2 => Now = InstallWork[2]
      /\ step = 3 => Now = InstallWork[3]
      /\ step = 4 => Now = InstallWork[4]
      /\ step = 5 => Now = InstallWork[5]
      /\ step = 6 => Now = InstallWork[6]
      /\ step = 7 => Now = InstallWork[7]
      /\ step = 8 => Now = InstallWork[8]
      /\ step = 9 => Now = InstallWork[9]
  BY DEF Now
<1>4. QED
  BY <1>2, <1>3 DEF Key

\* The steps of a removal, one by one.
LEMMA UninstallSteps ==
    ASSUME script = "uninstall"
    PROVE  /\ step = 1 => Now.op = "remove" /\ Key = "com32"
           /\ step = 2 => Now.op = "remove" /\ Key = "oem32"
           /\ step = 3 => Now.op = "import" /\ Key = "com32"
           /\ step = 4 => Now.op = "import" /\ Key = "oem32"
           /\ step = 5 => Now.op = "remove" /\ Key = "com64"
           /\ step = 6 => Now.op = "remove" /\ Key = "oem64"
           /\ step = 7 => Now.op = "import" /\ Key = "com64"
           /\ step = 8 => Now.op = "import" /\ Key = "oem64"
           /\ step = 9 => Now.op = "forget" /\ Key = "none"
<1>1. /\ UninstallWork[1] = Work("remove", "com32")
      /\ UninstallWork[2] = Work("remove", "oem32")
      /\ UninstallWork[3] = Work("import", "com32")
      /\ UninstallWork[4] = Work("import", "oem32")
      /\ UninstallWork[5] = Work("remove", "com64")
      /\ UninstallWork[6] = Work("remove", "oem64")
      /\ UninstallWork[7] = Work("import", "com64")
      /\ UninstallWork[8] = Work("import", "oem64")
      /\ UninstallWork[9] = Work("forget", "none")
  BY DEF UninstallWork
<1>2. /\ UninstallWork[1].op = "remove" /\ UninstallWork[1].key = "com32"
      /\ UninstallWork[2].op = "remove" /\ UninstallWork[2].key = "oem32"
      /\ UninstallWork[3].op = "import" /\ UninstallWork[3].key = "com32"
      /\ UninstallWork[4].op = "import" /\ UninstallWork[4].key = "oem32"
      /\ UninstallWork[5].op = "remove" /\ UninstallWork[5].key = "com64"
      /\ UninstallWork[6].op = "remove" /\ UninstallWork[6].key = "oem64"
      /\ UninstallWork[7].op = "import" /\ UninstallWork[7].key = "com64"
      /\ UninstallWork[8].op = "import" /\ UninstallWork[8].key = "oem64"
      /\ UninstallWork[9].op = "forget" /\ UninstallWork[9].key = "none"
  BY <1>1 DEF Work
<1>3. /\ step = 1 => Now = UninstallWork[1]
      /\ step = 2 => Now = UninstallWork[2]
      /\ step = 3 => Now = UninstallWork[3]
      /\ step = 4 => Now = UninstallWork[4]
      /\ step = 5 => Now = UninstallWork[5]
      /\ step = 6 => Now = UninstallWork[6]
      /\ step = 7 => Now = UninstallWork[7]
      /\ step = 8 => Now = UninstallWork[8]
      /\ step = 9 => Now = UninstallWork[9]
  BY DEF Now
<1>4. QED
  BY <1>2, <1>3 DEF Key

\* Which operation and which key each step of an installation is about.
LEMMA Installing ==
    ASSUME script = "install", step \in 1 .. LastStep
    PROVE  /\ Now.op = "export" => step \in 1 .. 4 /\ Key \in Keys /\ ExportStep(Key) = step
           /\ Now.op = "save" <=> step = 5
           /\ Now.op = "register" <=> step \in 6 .. 9
           /\ Now.op = "register" => Key \in Keys
           /\ Now.op \notin {"remove", "import", "forget"}
<1>1. step \in {1, 2, 3, 4, 5, 6, 7, 8, 9}
  BY DEF LastStep
<1>2. QED
  BY <1>1, InstallSteps DEF ExportStep, Keys, OEMKeys

\* And each step of a removal.
LEMMA Removing ==
    ASSUME script = "uninstall", step \in 1 .. LastStep
    PROVE  /\ Now.op = "remove" => step \in {1, 2, 5, 6}
           /\ Now.op = "import" => step \in {3, 4, 7, 8}
           /\ Now.op = "forget" <=> step = 9
           /\ step \in {1, 3} => Key = "com32"
           /\ step \in {2, 4} => Key = "oem32"
           /\ step \in {5, 7} => Key = "com64"
           /\ step \in {6, 8} => Key = "oem64"
           /\ Now.op \notin {"export", "save", "register"}
<1>1. step \in {1, 2, 3, 4, 5, 6, 7, 8, 9}
  BY DEF LastStep
<1>2. QED
  BY <1>1, UninstallSteps

\* A step is taken at the script's next step, and is about a key, or saves or forgets.
LEMMA Advances ==
    ASSUME TypeOK, NEW op, Does(op)
    PROVE  /\ script \in {"install", "uninstall"}
           /\ Now.op = op
           /\ step = 9 => script' = "nothing" /\ step' = 1
           /\ step # 9 => script' = script /\ step' = step + 1
           /\ script' \in {"nothing", "install", "uninstall"} /\ step' \in 1 .. LastStep
           /\ UNCHANGED <<shared, original, misread>>
BY DEF TypeOK, Does, Start, LastStep

\* What a write to the registry leaves there.
LEMMA PutIs ==
    ASSUME TypeOK, NEW value, Put(value)
    PROVE  /\ registry' \in [Keys -> {"absent", "old", "ours", value}]
           /\ \A key \in Keys :
                registry'[key] = IF key = Key \/ (shared /\ {key, Key} \subseteq OEMKeys)
                                 THEN value ELSE registry[key]
BY DEF TypeOK, Put, Written

\* A write keeps the two views of the OEM key together.
LEMMA PutKeepsShared ==
    ASSUME TypeOK, SharedIsOne, NEW value, Put(value), UNCHANGED <<shared, original>>
    PROVE  SharedIsOne'
BY PutIs DEF SharedIsOne, Keys, OEMKeys

\* What the keys held is what the registry holds before an installation has written.
LEMMA OriginalExists ==
    ASSUME TypeOK, registry = original, NEW key \in Keys
    PROVE  key \in Existing <=> original[key] = "old"
BY DEF TypeOK, Existing

-----------------------------------------------------------------------------
(* Each action keeps the invariant. *)

\* Init establishes it.
LEMMA InitInv == Init => Inv
<1> SUFFICES ASSUME Init PROVE Inv
  OBVIOUS
<1>1. registry \in [Keys -> {"absent", "old", "ours"}]
  BY DEF Init
<1>2. TypeOK
  <2>1. shared \in BOOLEAN /\ failed \in BOOLEAN /\ misread \in BOOLEAN
    BY Zenon DEF Init
  <2>2. QED
    BY <1>1, <2>1 DEF Init, TypeOK, LastStep
<1>3. SharedIsOne /\ FileComesFirst /\ ExportsAreDone /\ RemovalRestores
  BY DEF Init, SharedIsOne, FileComesFirst, ExportsAreDone, RemovalRestores
<1>4. Restorable
  BY DEF Init, Restorable
<1>5. QED
  BY <1>2, <1>3, <1>4 DEF Inv

\* Starting an installation.
LEMMA InstallInv == Inv /\ Install => Inv'
<1> SUFFICES ASSUME Inv, Install PROVE Inv'
  OBVIOUS
<1> USE RegistrationAssumption DEF Inv
<1>1. TypeOK'
  BY DEF Install, Start, TypeOK, LastStep
<1>2. SharedIsOne' /\ Restorable'
  BY DEF Install, SharedIsOne, Restorable
<1>3. FileComesFirst'
  BY DEF Install, Start, FileComesFirst
<1>4. ExportsAreDone' /\ RemovalRestores'
  BY DEF Install, Start, ExportsAreDone, RemovalRestores, ExportStep
<1>5. QED
  BY <1>1, <1>2, <1>3, <1>4

\* Starting a removal.
LEMMA UninstallInv == Inv /\ Uninstall => Inv'
<1> SUFFICES ASSUME Inv, Uninstall PROVE Inv'
  OBVIOUS
<1> USE RegistrationAssumption DEF Inv
<1>1. TypeOK'
  BY DEF Uninstall, Start, TypeOK, LastStep
<1>2. SharedIsOne' /\ Restorable'
  BY DEF Uninstall, SharedIsOne, Restorable
<1>3. FileComesFirst'
  BY DEF Uninstall, Start, FileComesFirst, TypeOK
<1>4. ExportsAreDone' /\ RemovalRestores'
  BY DEF Uninstall, Start, ExportsAreDone, RemovalRestores
<1>5. QED
  BY <1>1, <1>2, <1>3, <1>4

\* Exporting a key.
LEMMA ExportInv == Inv /\ Export => Inv'
<1> SUFFICES ASSUME Inv, Export PROVE Inv'
  OBVIOUS
<1> USE RegistrationAssumption DEF Inv
<1>1. Does("export")
  BY DEF Export
<1>2. /\ script = "install" /\ step \in 1 .. 4 /\ script' = "install" /\ step' = step + 1
      /\ Key \in Keys /\ ExportStep(Key) = step /\ UNCHANGED <<shared, original, misread>>
  BY <1>1, Advances, Installing, Removing DEF TypeOK
<1>3. TypeOK'
  <2>1. exported' \in SUBSET Keys /\ kept' \in SUBSET Keys /\ failed' \in BOOLEAN
    BY <1>2 DEF Export, TypeOK
  <2>2. QED
    BY <1>2, <2>1 DEF Export, TypeOK, LastStep
<1>4. SharedIsOne' /\ FileComesFirst' /\ RemovalRestores' /\ Restorable'
  BY <1>2 DEF Export, SharedIsOne, FileComesFirst, RemovalRestores, Restorable, TypeOK
<1>5. ASSUME ~failed', ~misread' PROVE ExportsAreDone'
  <2>1. ~failed /\ ~misread /\ registry = original
    BY <1>2, <1>5 DEF Export, FileComesFirst, Restorable, TypeOK
  <2>2. SUFFICES ASSUME NEW key \in Keys, original[key] = "old", ExportStep(key) <= step
                 PROVE  key \in exported'
    BY <1>2 DEF ExportsAreDone, ExportStep
  <2>3. CASE key = Key
    BY <2>1, <2>2, <2>3, <1>5, OriginalExists DEF Export, TypeOK
  <2>4. CASE key # Key
    <3>1. ExportStep(key) < step
      BY <1>2, <2>2, <2>4 DEF ExportStep, Keys, OEMKeys
    <3>2. QED
      BY <1>2, <2>1, <2>2, <3>1 DEF Export, ExportsAreDone
  <2>5. QED
    BY <2>3, <2>4
<1>6. QED
  BY <1>3, <1>4, <1>5

\* Writing the state file.
LEMMA SaveInv == Inv /\ Save => Inv'
<1> SUFFICES ASSUME Inv, Save PROVE Inv'
  OBVIOUS
<1> USE RegistrationAssumption DEF Inv
<1>1. Does("save")
  BY DEF Save
<1>2. /\ script = "install" /\ step = 5 /\ script' = "install" /\ step' = 6
      /\ UNCHANGED <<shared, original, misread>>
  BY <1>1, Advances, Installing, Removing DEF TypeOK
<1>3. stateFile' \in States
  BY DEF Save, States, Existing, TypeOK
<1>4. TypeOK' /\ SharedIsOne' /\ FileComesFirst' /\ ExportsAreDone' /\ RemovalRestores'
  BY <1>2, <1>3 DEF Save, TypeOK, SharedIsOne, FileComesFirst, ExportsAreDone,
                    RemovalRestores, LastStep
<1>5. ASSUME ~failed', ~misread' PROVE Restorable'
  <2>1. ~failed /\ ~misread /\ registry = original
    BY <1>2, <1>5 DEF Save, FileComesFirst, Restorable, TypeOK
  <2>2. ASSUME NEW key \in Keys
        PROVE  /\ original[key] = "old" <=> key \in Existing
               /\ original[key] = "old" => key \in exported
    BY <1>2, <2>1, OriginalExists DEF ExportsAreDone, ExportStep
  <2>3. QED
    BY <1>2, <1>3, <2>2 DEF Save, Restorable
<1>6. QED
  BY <1>4, <1>5 DEF Restorable

\* Writing a key of the installation.
LEMMA RegisterInv == Inv /\ Register => Inv'
<1> SUFFICES ASSUME Inv, Register PROVE Inv'
  OBVIOUS
<1> USE RegistrationAssumption DEF Inv
<1>1. Does("register")
  BY DEF Register
<1>2. /\ script = "install" /\ step \in 6 .. 9 /\ stateFile \in States
      /\ script' \in {"nothing", "install"} /\ step' \in 1 .. LastStep
      /\ script' = "install" => step' > 6
      /\ UNCHANGED <<shared, original, misread>>
  BY <1>1, Advances, Installing, Removing DEF TypeOK, FileComesFirst
<1>3. registry' \in [Keys -> {"absent", "old", "ours"}] /\ SharedIsOne'
  BY <1>2, PutIs, PutKeepsShared DEF Register
<1>4. QED
  BY <1>2, <1>3 DEF Register, TypeOK, FileComesFirst, ExportsAreDone, RemovalRestores,
                    Restorable

\* Deleting a key.
LEMMA RemoveInv == Inv /\ Remove => Inv'
<1> SUFFICES ASSUME Inv, Remove PROVE Inv'
  OBVIOUS
<1> USE RegistrationAssumption DEF Inv
<1>1. Does("remove") /\ Put("absent")
  BY DEF Remove
<1>2. /\ script = "uninstall" /\ step \in {1, 2, 5, 6}
      /\ stateFile \in States \cup {Empty} /\ (stateFile = Empty => misread)
      /\ script' = "uninstall" /\ step' = step + 1 /\ step' \in 1 .. LastStep
      /\ UNCHANGED <<shared, original, misread>>
  BY <1>1, Advances, Installing, Removing DEF TypeOK, FileComesFirst
<1>3. registry' \in [Keys -> {"absent", "old", "ours"}] /\ SharedIsOne'
  BY <1>1, <1>2, PutIs, PutKeepsShared
<1>4. ASSUME ~failed', ~misread' PROVE RemovalRestores'
  <2>1. RemovalRestores
    BY <1>2, <1>4 DEF Remove
  <2>2. QED
    BY <1>1, <1>2, <2>1, PutIs, Removing DEF RemovalRestores, Keys, OEMKeys, TypeOK
<1>5. QED
  BY <1>2, <1>3, <1>4 DEF Remove, TypeOK, FileComesFirst, ExportsAreDone, Restorable

\* Importing a key.
LEMMA ImportInv == Inv /\ Import => Inv'
<1> SUFFICES ASSUME Inv, Import PROVE Inv'
  OBVIOUS
<1> USE RegistrationAssumption DEF Inv
<1>1. Does("import")
  BY DEF Import
<1>2. /\ script = "uninstall" /\ step \in {3, 4, 7, 8}
      /\ stateFile \in States \cup {Empty} /\ (stateFile = Empty => misread)
      /\ script' = "uninstall" /\ step' = step + 1 /\ step' \in 1 .. LastStep
      /\ UNCHANGED <<shared, original, misread>> /\ Key \in Keys
  BY <1>1, Advances, Installing, Removing DEF TypeOK, FileComesFirst, Keys, OEMKeys
<1>3. registry' \in [Keys -> {"absent", "old", "ours"}] /\ SharedIsOne' /\ failed' \in BOOLEAN
  <2>1. Put("old") \/ registry' = registry
    BY DEF Import
  <2>2. CASE Put("old")
    <3>1. registry' \in [Keys -> {"absent", "old", "ours"}] /\ SharedIsOne'
      BY <1>2, <2>2, PutIs, PutKeepsShared
    <3>2. failed' \in BOOLEAN
      BY DEF Import, TypeOK
    <3>3. QED
      BY <3>1, <3>2
  <2>3. CASE registry' = registry
    BY <1>2, <2>3 DEF Import, TypeOK, SharedIsOne
  <2>4. QED
    BY <2>1, <2>2, <2>3
<1>4. ASSUME ~failed', ~misread' PROVE RemovalRestores'
  <2>1. RemovalRestores /\ Restorable /\ ~failed /\ ~misread
    BY <1>2, <1>4 DEF Import, TypeOK
  <2>2. State = stateFile /\ \A key \in Keys : original[key] = "old" <=> key \in stateFile.existed
    BY <1>2, <2>1 DEF Restorable, State
  <2>3. CASE Put("old") /\ Key \in stateFile.existed
    <3>1. original[Key] = "old"
      BY <1>2, <2>2, <2>3
    <3>2. QED
      BY <1>2, <2>1, <2>3, <3>1, PutIs, Removing DEF RemovalRestores, SharedIsOne, Keys, OEMKeys, TypeOK
  <2>4. CASE registry' = registry /\ Key \notin stateFile.existed
    <3>1. original[Key] = "absent"
      BY <1>2, <2>2, <2>4 DEF TypeOK
    <3>2. QED
      BY <1>2, <2>1, <2>4, <3>1, Removing DEF RemovalRestores, SharedIsOne, Keys, OEMKeys, TypeOK
  <2>5. QED
    BY <1>4, <2>1, <2>2, <2>3, <2>4 DEF Import
<1>5. QED
  BY <1>2, <1>3, <1>4 DEF Import, TypeOK, FileComesFirst, ExportsAreDone, Restorable

\* Deleting the state file.
LEMMA ForgetInv == Inv /\ Forget => Inv'
<1> SUFFICES ASSUME Inv, Forget PROVE Inv'
  OBVIOUS
<1> USE RegistrationAssumption DEF Inv
<1>1. Does("forget")
  BY DEF Forget
<1>2. /\ script = "uninstall" /\ step = 9 /\ script' = "nothing" /\ step' = 1
      /\ UNCHANGED <<shared, original, misread>>
  BY <1>1, Advances, Installing, Removing DEF TypeOK
<1>3. TypeOK' /\ SharedIsOne' /\ FileComesFirst' /\ ExportsAreDone' /\ RemovalRestores'
  BY <1>2 DEF Forget, TypeOK, SharedIsOne, FileComesFirst, ExportsAreDone, RemovalRestores,
              LastStep
<1>4. ~failed /\ ~misread => registry = original
  BY <1>2 DEF TypeOK, RemovalRestores, SharedIsOne, Keys, OEMKeys
<1>5. QED
  BY <1>2, <1>3, <1>4 DEF Forget, Restorable

\* The script cut off at any step.
LEMMA CutOffInv == Inv /\ CutOff => Inv'
<1> SUFFICES ASSUME Inv, CutOff PROVE Inv'
  OBVIOUS
<1> USE RegistrationAssumption DEF Inv
<1>1. script' = "nothing" /\ step' = 1 /\ UNCHANGED <<shared, original, exported, kept, failed, misread>>
  BY DEF CutOff, Start
<1>2. ExportsAreDone' /\ RemovalRestores' /\ FileComesFirst'
  BY <1>1 DEF ExportsAreDone, RemovalRestores, FileComesFirst
<1>3. CASE UNCHANGED <<registry, stateFile>>
  BY <1>1, <1>2, <1>3 DEF TypeOK, SharedIsOne, Restorable, LastStep
<1>4. CASE Now.op = "save" /\ stateFile' \in {Torn, Empty} /\ UNCHANGED registry
  <2>1. script = "install" /\ step = 5
    BY <1>4, Installing, Removing DEF CutOff, TypeOK
  <2>2. stateFile = None
    BY <2>1 DEF FileComesFirst, TypeOK
  <2>3. QED
    BY <1>1, <1>2, <1>4, <2>2 DEF TypeOK, SharedIsOne, Restorable, LastStep
<1>5. CASE Writes /\ Put("ours") /\ UNCHANGED stateFile
  <2>1. stateFile \in States \cup {Empty} /\ (stateFile = Empty => misread)
    BY <1>5, Installing, Removing DEF CutOff, TypeOK, Writes, FileComesFirst
  <2>2. registry' \in [Keys -> {"absent", "old", "ours"}] /\ SharedIsOne'
    BY <1>1, <1>5, PutIs, PutKeepsShared
  <2>3. QED
    BY <1>1, <1>2, <1>5, <2>1, <2>2 DEF TypeOK, Restorable, LastStep
<1>6. QED
  BY <1>3, <1>4, <1>5 DEF CutOff

\* Every step keeps the invariant.
LEMMA NextInv == Inv /\ [Next]_vars => Inv'
<1>1. Inv /\ UNCHANGED vars => Inv'
  BY DEF vars, Inv, TypeOK, SharedIsOne, FileComesFirst, ExportsAreDone, RemovalRestores,
         Restorable
<1>2. QED
  BY <1>1, InstallInv, UninstallInv, ExportInv, SaveInv, RegisterInv, RemoveInv, ImportInv,
     ForgetInv, CutOffInv DEF Next

\* While reg.exe does its work and no removal goes by an empty file, wherever and however often
\* the script is cut off, the registry is as it was, or a whole backup of it is known.
LEMMA AlwaysRestorable == Spec => []Restorable
<1>1. Inv => Restorable
  BY DEF Inv
<1>2. QED
  BY InitInv, NextInv, <1>1, PTL DEF Spec

-----------------------------------------------------------------------------
(* What is saved before anything is overwritten. *)

\* A step that writes to the registry when everything is saved loses nothing.
LEMMA SavedStaysSaved ==
    ASSUME \A key \in Keys : Saved(key), kept \subseteq kept', original' = original
    PROVE  SavedFirst' /\ NothingIsBeyondRecovery'
BY DEF Saved, SavedFirst, NothingIsBeyondRecovery

\* Every step keeps it so.
LEMMA NextSaved == Inv /\ SavedInv /\ [Next]_vars => SavedInv'
<1>1. SUFFICES ASSUME Inv, SavedInv, [Next]_vars, ~failed'
               PROVE  SavedFirst' /\ NothingIsBeyondRecovery'
  BY DEF SavedInv, NothingIsBeyondRecovery
<1>2. TypeOK /\ FileComesFirst  BY <1>1 DEF Inv
<1>3. ~failed
  BY <1>1, <1>2 DEF Next, Install, Uninstall, Export, Save, Register, Remove, Import, Forget,
     CutOff, vars, TypeOK
<1>4. SavedFirst /\ \A key \in Keys : original[key] = "old" => registry[key] = "old" \/ key \in kept
  BY <1>1, <1>3 DEF SavedInv, NothingIsBeyondRecovery
<1>5. CASE Install
  BY <1>4, <1>5 DEF Install, Start, SavedFirst, Saved, ExportStep, NothingIsBeyondRecovery
<1>6. CASE Uninstall
  BY <1>4, <1>6 DEF Uninstall, Start, SavedFirst, Saved, NothingIsBeyondRecovery
<1>7. CASE Export
  <2>1. Does("export")  BY <1>7 DEF Export
  <2>2. /\ script = "install" /\ step \in 1 .. 4 /\ script' = "install" /\ step' = step + 1
        /\ Key \in Keys /\ ExportStep(Key) = step
        /\ UNCHANGED <<shared, original, registry, stateFile>>
    BY <1>2, <1>7, <2>1, Advances, Installing, Removing DEF TypeOK, Export
  <2>3. kept \subseteq kept' /\ (original[Key] = "old" => Key \in kept')
    <3>1. CASE Key \in Existing  BY <1>1, <1>3, <1>4, <1>7, <2>2, <3>1 DEF Export, TypeOK
    <3>2. CASE Key \notin Existing
      BY <1>4, <1>7, <2>2, <3>2 DEF Export, Existing
    <3>3. QED  BY <3>1, <3>2
  <2>4. NothingIsBeyondRecovery'  BY <1>4, <2>2, <2>3 DEF NothingIsBeyondRecovery
  <2>5. ASSUME NEW key \in Keys, ExportStep(key) < step + 1 PROVE Saved(key)'
    <3>1. CASE key = Key  BY <2>2, <2>3, <3>1 DEF Saved
    <3>2. CASE key # Key
      <4>1. ExportStep(key) < step  BY <2>2, <2>5, <3>2 DEF ExportStep, Keys, OEMKeys
      <4>2. QED  BY <1>4, <2>2, <2>3, <4>1 DEF SavedFirst, Saved
    <3>3. QED  BY <3>1, <3>2
  <2>6. stateFile # None => \A key \in Keys : Saved(key)'
    BY <1>4, <2>2, <2>3 DEF SavedFirst, Saved
  <2>7. \A key \in Keys : ExportStep(key)' = ExportStep(key)  BY DEF ExportStep
  <2>8. QED  BY <2>2, <2>4, <2>5, <2>6, <2>7 DEF SavedFirst
<1>8. CASE Save \/ Register \/ Remove \/ Import \/ Forget
           \/ (CutOff /\ Now.op # "export")
  <2>1. /\ script = "install" => step > 4
        /\ script # "nothing"
        /\ kept' = kept /\ original' = original
    <3>1. script # "nothing" /\ Now.op # "export"
      BY <1>8 DEF Save, Register, Remove, Import, Forget, CutOff, Does
    <3>2. kept' = kept /\ original' = original
      BY <1>8 DEF Save, Register, Remove, Import, Forget, CutOff, Does
    <3>3. script = "install" => step > 4
      <4>1. step \in {1, 2, 3, 4, 5, 6, 7, 8, 9}  BY <1>2 DEF TypeOK, LastStep
      <4>2. QED  BY <3>1, <4>1, InstallSteps
    <3>4. QED  BY <3>1, <3>2, <3>3
  <2>2. \A key \in Keys : Saved(key)
    <3>1. CASE script = "install"
      <4>1. \A key \in Keys : ExportStep(key) < step
        BY <1>2, <2>1, <3>1 DEF ExportStep, TypeOK
      <4>2. QED  BY <1>4, <3>1, <4>1 DEF SavedFirst
    <3>2. CASE script = "uninstall"
      BY <1>2, <1>4, <3>2, RegistrationAssumption DEF FileComesFirst, SavedFirst
    <3>3. QED  BY <1>2, <2>1, <3>1, <3>2 DEF TypeOK
  <2>3. QED  BY <2>1, <2>2, SavedStaysSaved
<1>9. CASE CutOff /\ Now.op = "export"
  <2>1. /\ script' = "nothing" /\ UNCHANGED <<registry, stateFile, original, kept>>
    BY <1>9 DEF CutOff, Start, Writes
  <2>2. QED  BY <1>4, <2>1 DEF SavedFirst, Saved, NothingIsBeyondRecovery
<1>10. CASE UNCHANGED vars
  BY <1>4, <1>10 DEF vars, SavedFirst, Saved, ExportStep, NothingIsBeyondRecovery
<1>11. QED  BY <1>1, <1>5, <1>6, <1>7, <1>8, <1>9, <1>10 DEF Next

\* Lines 132-153: every key is exported before the first is overwritten, and no backup is ever
\* removed; so what a key held can be recovered even where a removal has lost it.
LEMMA NeverOutOfReach == Spec => []NothingIsBeyondRecovery
<1>1. Init => SavedInv
  BY DEF Init, SavedInv, SavedFirst, Saved, ExportStep, NothingIsBeyondRecovery
<1>2. SavedInv => NothingIsBeyondRecovery
  BY DEF SavedInv
<1>3. QED
  BY InitInv, NextInv, NextSaved, <1>1, <1>2, PTL DEF Spec

\* However often the script is cut off, what was there before the first installation is
\* restored by a removal, or can be, unless one went by an empty state file; and in any case
\* it lies in the registry or in a backup (Registration!NothingIsLost).
THEOREM NothingIsEverLost == Spec => []NothingIsLost
BY AlwaysRestorable, NeverOutOfReach, PTL DEF NothingIsLost
=============================================================================
