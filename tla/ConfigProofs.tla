---------------------------- MODULE ConfigProofs ----------------------------
(***************************************************************************)
(* A finished activation has applied its manifest, and the settings of the *)
(* user's own are lost only to a cut, for any manifests and whatever       *)
(* earlier activations left: each step finds what the steps before it were *)
(* to write, and nothing but the activation writes while the guest is off. *)
(***************************************************************************)
EXTENDS GuestConfig, TLAPS

\* The variables are a function of the files' names and a record.
Shaped ==
  /\ files = [f \in FileNames |-> files[f]]
  /\ work = [given |-> work.given, manifest |-> work.manifest, restart |-> work.restart,
             new |-> work.new]

FilesOK ==
  /\ files = [f \in FileNames |-> files[f]]
  /\ files["stored"] \in Manifest \cup {Absent, Torn}
  /\ files["env"] \in (SUBSET EnvKeys) \cup {Absent, Torn}
  /\ files["config"] \in Config \cup {Absent, Torn}
  /\ files["auth"] \in Auth \cup {Absent, Torn}
  /\ files["allow"] \in Lists \cup {Absent, Torn}
  /\ files["access"] \in Access \cup {Absent, Torn}

\* What x has of the manifest m when it is the file that the step l writes.
Has(l, m, x) ==
  /\ l = "env" => x = m.env
  /\ l = "config" =>
       /\ \A p \in Profiles : m.profiles[p] # None => p \in x.profiles
       /\ SlackOf(m) # None => x.slack = SlackOf(m).token
       /\ m.model # None => x.model = m.model
  /\ l = "auth" => \A p \in Profiles : m.profiles[p] # None => x[p] = m.profiles[p]
  /\ l = "allow" => x = AllowOf(m)
  /\ l = "access" => x = m.access

\* What the step that is under way is about to write.
Writing ==
  work.new # None =>
    /\ Has(pc, work.manifest, work.new)
    /\ pc = "copy" => work.new = work.given
    /\ pc = "normalize" =>
         work.new.legacy = None /\ (work.given # None => work.new = Normalize(work.given))
    /\ pc = "config" => work.new.own = mine

Applying == {"env", "config", "auth", "allow", "unit", "flag", "access", "start"}

\* Which manifest it is.
Ready ==
  /\ pc = "copy" => work.given # None
  /\ pc = "normalize" =>
       /\ files["stored"] # Absent
       /\ work.given # None /\ work.new = None => files["stored"] = work.given
  /\ pc = "validate" =>
       /\ files["stored"] \in Manifest /\ files["stored"].legacy = None
       /\ work.given # None => files["stored"] = Normalize(work.given)
  /\ pc \in Applying =>
       /\ work.manifest \in Applicable /\ work.manifest = files["stored"]
       /\ work.given # None => work.manifest = Normalize(work.given)

\* What the steps before have written.
Done ==
  LET m == work.manifest IN
  /\ pc \in Applying \ {"env"} =>
       \A p \in Profiles : m.profiles[p] # None => m.profiles[p] \in files["env"]
  /\ pc \in Applying \ {"env", "config"} => Has("config", m, files["config"])
  /\ pc \in Applying \ {"env", "config", "auth"} => Has("auth", m, files["auth"])
  /\ pc \in {"unit", "flag", "access", "start"} /\ AllowOf(m) # None =>
       Has("allow", m, files["allow"])
  /\ pc = "start" /\ m.access # None => Has("access", m, files["access"])


Off == pc # "idle" => ~awake

Inv == TypeOK /\ Shaped /\ Off /\ Writing /\ Ready /\ Done /\ SettingsSurvive

-----------------------------------------------------------------------------
(* The data *)

LEMMA Names ==
  /\ FileNames = {"stored", "env", "config", "auth", "allow", "access"}
  /\ Content["stored"] = Manifest /\ Content["env"] = SUBSET EnvKeys
  /\ Content["config"] = Config /\ Content["auth"] = Auth
  /\ Content["allow"] = Lists /\ Content["access"] = Access
  BY DEF FileNames, Content

LEMMA Afters ==
  /\ DOMAIN After = {"copy", "normalize", "env", "config", "auth", "allow", "access"}
  /\ After["copy"] = "normalize" /\ After["normalize"] = "validate" /\ After["env"] = "config"
  /\ After["config"] = "auth" /\ After["auth"] = "allow" /\ After["allow"] = "unit"
  /\ After["access"] = "start"
  BY DEF After

LEMMA FilesAre == TypeOK /\ Shaped => FilesOK
  BY Names DEF TypeOK, Shaped, FilesOK

LEMMA FilesTyped ==
  FilesOK => DOMAIN files = FileNames /\ \A f \in FileNames : files[f] \in Content[f] \cup {Absent, Torn}
  BY Names DEF FilesOK

LEMMA NotContent ==
  /\ \A f \in FileNames : Absent \notin Content[f] /\ Torn \notin Content[f] /\ None \notin Content[f]
  /\ Absent # Torn /\ None # Absent
  BY ConfigAssumption

LEMMA NormalizeIs ==
  ASSUME NEW m \in Manifest
  PROVE  /\ Normalize(m) \in Manifest /\ Normalize(m).legacy = None
         /\ Normalize(m).profiles = m.profiles /\ Normalize(m).access = m.access
         /\ Normalize(m).model = m.model
         /\ SlackOf(Normalize(m)) = SlackOf(m) /\ AllowOf(Normalize(m)) = AllowOf(m)
<1>1. SlackOf(m) \in Slack \cup {None}
  BY DEF SlackOf, Manifest
<1>2. /\ Normalize(m) \in Manifest /\ Normalize(m).legacy = None
      /\ Normalize(m).profiles = m.profiles /\ Normalize(m).access = m.access
         /\ Normalize(m).model = m.model
      /\ Normalize(m).slack = SlackOf(m)
  BY <1>1 DEF Normalize, Manifest
<1>3. SlackOf(Normalize(m)) = SlackOf(m)
  BY <1>2 DEF SlackOf
<1> QED
  BY <1>2, <1>3 DEF AllowOf

LEMMA NewConfigHas ==
  ASSUME NEW m \in Applicable, NEW old \in Config \cup {Absent}
  PROVE  /\ NewConfig(m, old) \in Config /\ Has("config", m, NewConfig(m, old))
         /\ NewConfig(m, old).own = IF old = Absent THEN None ELSE old.own
<1>1. SlackOf(m) # None => SlackOf(m).token \in Tokens \cup {None}
  BY DEF Applicable, Manifest, SlackOf, Slack
<1>2. Absent \notin Config
  BY NotContent, Names
<1>3. m.model \in Models \cup {None}
  BY DEF Applicable, Manifest
<1>4. NewConfig(m, old) \in Config
  BY <1>1, <1>2, <1>3 DEF NewConfig, Config
<1>5. Has("config", m, NewConfig(m, old))
  BY DEF NewConfig, Has
<1> QED
  BY <1>4, <1>5 DEF NewConfig

LEMMA NewAuthHas ==
  ASSUME NEW m \in Applicable, NEW old \in Auth \cup {Absent}
  PROVE  NewAuth(m, old) \in Auth /\ Has("auth", m, NewAuth(m, old))
<1>1. m.profiles \in Auth
  BY DEF Applicable, Manifest
<1>2. NewAuth(m, old) \in Auth
  BY <1>1 DEF NewAuth, Auth
<1>3. \A p \in Profiles : m.profiles[p] # None => NewAuth(m, old)[p] = m.profiles[p]
  BY DEF NewAuth
<1> QED
  BY <1>2, <1>3 DEF Has

-----------------------------------------------------------------------------
(* A file, and the local variables *)

LEMMA SetFile ==
  ASSUME FilesOK, NEW t \in FileNames, NEW x \in Content[t] \cup {Torn},
         files' = [files EXCEPT ![t] = x]
  PROVE  /\ FilesOK' /\ files'[t] = x
         /\ \A f \in FileNames \ {t} : files'[f] = files[f]
  BY Names DEF FilesOK

LEMMA TargetIs ==
  ASSUME NEW l \in DOMAIN After
  PROVE  /\ Target(l) \in FileNames
         /\ l \in {"copy", "normalize"} => Target(l) = "stored"
         /\ l \notin {"copy", "normalize"} => Target(l) = l
  BY Names, Afters DEF Target

\* What a step is about to write is of the file's type and what it should be.
LEMMA NewHas ==
  ASSUME Inv, pc \in DOMAIN After, work.new = None, ~Skips(pc), ~Unreadable(pc)
  PROVE  /\ New(pc) \in Content[Target(pc)] /\ Has(pc, work.manifest, New(pc))
         /\ pc = "copy" => New(pc) = work.given
         /\ pc = "normalize" =>
              New(pc).legacy = None /\ (work.given # None => New(pc) = Normalize(work.given))
         /\ pc = "config" => New(pc).own = mine
<1>0. FilesOK /\ TypeOK /\ Ready /\ SettingsSurvive
  BY FilesAre DEF Inv
<1>1. CASE pc = "copy"
  <2>1. New(pc) = work.given /\ work.given \in Manifest
    BY <1>0, <1>1, ConfigAssumption DEF New, Ready, TypeOK
  <2> QED
    BY <1>1, <2>1, Names, TargetIs DEF Has
<1>2. CASE pc = "normalize"
  <2>1. New(pc) = Normalize(files["stored"])
    BY <1>2 DEF New, Target
  <2>2. files["stored"] \in Manifest /\ (work.given # None => files["stored"] = work.given)
    BY <1>0, <1>2 DEF Ready, FilesOK, Unreadable, Target
  <2> QED
    BY <1>2, <2>1, <2>2, Names, TargetIs, NormalizeIs DEF Has
<1>3. ASSUME pc \in {"env", "config", "auth", "allow", "access"}
      PROVE  work.manifest \in Applicable /\ work.manifest \in Manifest
  BY <1>0, <1>3 DEF Ready, Applying, Applicable
<1>4. CASE pc = "env"
  <2>1. New(pc) = work.manifest.env /\ work.manifest.env \in SUBSET EnvKeys
    BY <1>3, <1>4 DEF New, Manifest
  <2> QED
    BY <1>4, <2>1, Names, TargetIs DEF Has
<1>5. CASE pc = "config"
  <2>1. New(pc) = NewConfig(work.manifest, files["config"])
    BY <1>5 DEF New, Target
  <2>2. files["config"] \in Config \cup {Absent} /\ (files["config"] # Absent => Whole("config"))
    BY <1>0, <1>5, NotContent, Names DEF FilesOK, Unreadable, Target, Whole
  <2>3. mine = IF files["config"] = Absent THEN None ELSE files["config"].own
    BY <1>0, <2>2, NotContent DEF SettingsSurvive, Whole
  <2> QED
    BY <1>3, <1>5, <2>1, <2>2, <2>3, NewConfigHas, Names, TargetIs
<1>6. CASE pc = "auth"
  <2>1. New(pc) = NewAuth(work.manifest, files["auth"])
    BY <1>6 DEF New, Target
  <2>2. files["auth"] \in Auth \cup {Absent}
    BY <1>0, <1>6 DEF FilesOK, Unreadable, Target
  <2> QED
    BY <1>3, <1>6, <2>1, <2>2, NewAuthHas, Names, TargetIs
<1>7. CASE pc = "allow"
  <2>1. New(pc) = AllowOf(work.manifest) /\ AllowOf(work.manifest) # None
    BY <1>7 DEF New, Skips
  <2>2. AllowOf(work.manifest) \in Lists
    BY <1>3, <1>7, <2>1 DEF AllowOf, SlackOf, Manifest, Slack
  <2> QED
    BY <1>7, <2>1, <2>2, Names, TargetIs DEF Has
<1>8. CASE pc = "access"
  <2>1. New(pc) = work.manifest.access /\ work.manifest.access \in Access
    BY <1>3, <1>8 DEF New, Manifest, Skips
  <2> QED
    BY <1>8, <2>1, Names, TargetIs DEF Has
<1> QED
  BY <1>1, <1>2, <1>4, <1>5, <1>6, <1>7, <1>8, Afters

-----------------------------------------------------------------------------
(* The invariant *)

LEMMA NoWorkIs ==
  NoWork = [given |-> None, manifest |-> None, restart |-> FALSE, new |-> None]
  BY DEF NoWork

\* The types of what only the guest has.
GuestOK ==
  /\ unit \in BOOLEAN /\ pending \in BOOLEAN /\ awake \in BOOLEAN
  /\ refresh \in {"off", "wait", "restart", "clear", "done"}
  /\ gateway \in Config \cup {None}
  /\ mine \in Settings \cup {None}
  /\ faults \in [FaultKinds -> Nat]

Labels == {"idle", "validate", "unit", "flag", "start"} \cup DOMAIN After

WorkOK ==
  /\ work = [given |-> work.given, manifest |-> work.manifest, restart |-> work.restart,
             new |-> work.new]
  /\ work.given \in Manifests \cup {None} /\ work.manifest \in Applicable \cup {None}
  /\ work.restart \in BOOLEAN
  /\ pc \in Labels
  /\ work.new # None => pc \in DOMAIN After /\ work.new \in Content[Target(pc)]

LEMMA Parts == Inv <=> FilesOK /\ GuestOK /\ WorkOK /\ Off /\ Writing /\ Ready /\ Done /\ SettingsSurvive
  BY FilesAre, FilesTyped DEF Inv, TypeOK, Shaped, GuestOK, WorkOK, FilesOK, Labels

LEMMA PartsNext ==
  FilesOK' /\ GuestOK' /\ WorkOK' /\ Off' /\ Writing' /\ Ready' /\ Done' /\ SettingsSurvive' => Inv'
  BY Parts, PTL

LEMMA InitInv == Init => Inv
<1> SUFFICES ASSUME Init PROVE Inv
  OBVIOUS
<1>1. /\ files = [f \in FileNames |-> Absent] /\ pc = "idle" /\ work = NoWork
      /\ awake = FALSE /\ mine = None
  BY DEF Init
<1>2. FilesOK
  BY <1>1, Names DEF FilesOK
<1>3. GuestOK
  BY ConfigAssumption DEF Init, GuestOK, FaultKinds
<1>4. WorkOK /\ Off /\ Writing /\ Ready /\ Done
  BY <1>1, NoWorkIs, Afters DEF WorkOK, Off, Writing, Ready, Done, Labels, Applying
<1>5. SettingsSurvive
  BY <1>1, Names DEF SettingsSurvive, Whole
<1> QED
  BY <1>2, <1>3, <1>4, <1>5, Parts

\* An activation that ends, or an exception that ends it.
LEMMA EndInv ==
  ASSUME Inv, Finish, FilesOK', GuestOK', SettingsSurvive', awake' \in BOOLEAN
  PROVE  Inv'
<1>1. WorkOK' /\ Off' /\ Writing' /\ Ready' /\ Done'
  BY NoWorkIs, Afters DEF Finish, Goto, WorkOK, Off, Writing, Ready, Done, Labels, Applying
<1> QED
  BY <1>1, PartsNext

\* A step of the guest, while which the files and the activation are as they were.
LEMMA GuestInv ==
  ASSUME Inv, GuestOK', UNCHANGED <<files, mine, pc, work>>, pc = "idle" \/ ~awake',
         faults["cut"] > 0 => faults'["cut"] > 0
  PROVE  Inv'
<1>1. FilesOK' /\ WorkOK' /\ Off' /\ Writing' /\ Ready' /\ Done' /\ SettingsSurvive'
  BY Parts DEF FilesOK, WorkOK, Off, Writing, Ready, Done, SettingsSurvive, Whole
<1> QED
  BY <1>1, PartsNext

LEMMA FaultOK ==
  ASSUME Inv, NEW k \in FaultKinds, Fault(k)
  PROVE  /\ faults' \in [FaultKinds -> Nat]
         /\ faults["cut"] > 0 \/ k = "cut" => faults'["cut"] > 0
  BY Parts DEF GuestOK, Fault, FaultKinds

LEMMA ActivateInv ==
  ASSUME Inv, Activate
  PROVE  Inv'
<1>0. FilesOK /\ GuestOK /\ SettingsSurvive
  BY Parts
<1> PICK m \in Manifests \cup {None}, restart \in BOOLEAN :
      /\ m = None => files["stored"] # Absent
      /\ Goto(IF m = None THEN "normalize" ELSE "copy",
              [NoWork EXCEPT !.given = m, !.restart = restart \/ awake])
  BY DEF Activate
<1> DEFINE r == restart \/ awake
           w == [given |-> m, manifest |-> None, restart |-> r, new |-> None]
<1>1. pc' = (IF m = None THEN "normalize" ELSE "copy") /\ work' = w
  BY NoWorkIs DEF Goto
<1>2. r \in BOOLEAN
  BY <1>0 DEF GuestOK
<1> HIDE DEF r
<1>3. UNCHANGED <<files, unit, pending, mine, faults>> /\ awake' = FALSE /\ refresh' = "off"
      /\ gateway' = None
  BY DEF Activate
<1>4. FilesOK' /\ GuestOK' /\ SettingsSurvive' /\ Off'
  <2>1. FilesOK' /\ SettingsSurvive'
    BY <1>0, <1>3 DEF FilesOK, SettingsSurvive, Whole, Activate
  <2>2. GuestOK'
    BY <1>0, <1>3 DEF GuestOK
  <2> QED
    BY <1>3, <2>1, <2>2 DEF Off
<1>5. WorkOK' /\ Writing' /\ Ready' /\ Done'
  BY <1>1, <1>2, <1>3, Afters DEF WorkOK, Writing, Ready, Done, Labels, Applying
<1> QED
  BY <1>4, <1>5, PartsNext

LEMMA SkipInv ==
  ASSUME Inv, SkipFile
  PROVE  Inv'
<1>0. FilesOK /\ GuestOK /\ SettingsSurvive /\ WorkOK /\ Off /\ Writing /\ Ready /\ Done
  BY Parts
<1>1. /\ UNCHANGED <<files, unit, pending, guest, mine, faults, work>>
      /\ work.new = None /\ pc' = After[pc]
      /\ \/ pc = "env" /\ work.manifest.env = {}
         \/ pc = "allow" /\ AllowOf(work.manifest) = None
         \/ pc = "access" /\ work.manifest.access = None
  BY DEF SkipFile, Goto, Skips
<1>2. FilesOK' /\ GuestOK' /\ SettingsSurvive'
  BY <1>0, <1>1 DEF FilesOK, GuestOK, SettingsSurvive, Whole, guest
<1>3. CASE pc = "env"
  <2>1. work.manifest \in Applicable
    BY <1>0, <1>3 DEF Ready, Applying
  <2>2. work.manifest.env = {} =>
          \A p \in Profiles : work.manifest.profiles[p] = None
    BY <2>1 DEF Applicable, Valid
  <2>3. pc' = "config"
    BY <1>1, <1>3, Afters
  <2>4. WorkOK' /\ Off' /\ Writing' /\ Ready' /\ Done'
    BY <1>0, <1>1, <1>3, <2>2, <2>3, Afters
    DEF WorkOK, Off, Writing, Ready, Done, Labels, Applying, guest
  <2> QED
    BY <1>2, <2>4, PartsNext
<1>4. CASE pc = "allow"
  <2>1. pc' = "unit"
    BY <1>1, <1>4, Afters
  <2>2. WorkOK' /\ Off' /\ Writing' /\ Ready' /\ Done'
    BY <1>0, <1>1, <1>4, <2>1, Afters
    DEF WorkOK, Off, Writing, Ready, Done, Labels, Applying, guest
  <2> QED
    BY <1>2, <2>2, PartsNext
<1>5. CASE pc = "access"
  <2>1. pc' = "start"
    BY <1>1, <1>5, Afters
  <2>2. WorkOK' /\ Off' /\ Writing' /\ Ready' /\ Done'
    BY <1>0, <1>1, <1>5, <2>1, Afters
    DEF WorkOK, Off, Writing, Ready, Done, Labels, Applying, guest
  <2> QED
    BY <1>2, <2>2, PartsNext
<1> QED
  BY <1>1, <1>3, <1>4, <1>5

LEMMA TruncateInv ==
  ASSUME Inv, Truncate
  PROVE  Inv'
<1>0. FilesOK /\ GuestOK /\ SettingsSurvive /\ WorkOK /\ Off /\ Writing /\ Ready /\ Done
  BY Parts
<1>1. /\ UNCHANGED <<unit, pending, guest, mine, faults>>
      /\ pc \in DOMAIN After /\ work.new = None /\ ~Skips(pc)
  BY DEF Truncate
<1>2. GuestOK'
  BY <1>0, <1>1 DEF GuestOK, guest
<1>3. CASE Unreadable(pc)
  <2>1. Finish /\ UNCHANGED files
    BY <1>3 DEF Truncate
  <2>2. FilesOK' /\ SettingsSurvive'
    BY <1>0, <1>1, <2>1 DEF FilesOK, SettingsSurvive, Whole
  <2> QED
    BY <1>2, <2>1, <2>2, EndInv DEF GuestOK
<1>4. CASE ~Unreadable(pc)
  <2> DEFINE t == Target(pc)  x == New(pc)
  <2>1. files' = [files EXCEPT ![t] = Torn] /\ Goto(pc, [work EXCEPT !.new = x])
    BY <1>4 DEF Truncate
  <2>2. t \in FileNames /\ (pc \in {"copy", "normalize"} => t = "stored")
        /\ (pc \notin {"copy", "normalize"} => t = pc)
    BY <1>1, TargetIs
  <2>3. /\ x \in Content[t] /\ Has(pc, work.manifest, x)
        /\ pc = "copy" => x = work.given
        /\ pc = "normalize" => x.legacy = None /\ (work.given # None => x = Normalize(work.given))
        /\ pc = "config" => x.own = mine
    BY <1>1, <1>4, NewHas
  <2> HIDE DEF t, x
  <2>4. /\ FilesOK' /\ files'[t] = Torn /\ \A f \in FileNames \ {t} : files'[f] = files[f]
    BY <1>0, <2>1, <2>2, SetFile
  <2>5. /\ pc' = pc /\ work'.given = work.given /\ work'.manifest = work.manifest
        /\ work'.restart = work.restart /\ work'.new = x /\ x # None
        /\ work' = [given |-> work.given, manifest |-> work.manifest, restart |-> work.restart,
                    new |-> x]
    BY <1>0, <2>1, <2>2, <2>3, NotContent DEF Goto, WorkOK
  <2>6. WorkOK'
    BY <1>0, <1>1, <2>3, <2>5 DEF WorkOK, t
  <2>7. Off' /\ Writing' /\ SettingsSurvive'
    BY <1>0, <1>1, <2>2, <2>3, <2>4, <2>5, Names, NotContent
    DEF Off, Writing, SettingsSurvive, Whole, guest
  <2>8. Ready' /\ Done'
    BY <1>0, <1>1, <2>2, <2>4, <2>5, Names, Afters, NotContent DEF Ready, Done, Applying
  <2> QED
    BY <1>2, <2>4, <2>6, <2>7, <2>8, PartsNext
<1> QED
  BY <1>3, <1>4

LEMMA WriteInv ==
  ASSUME Inv, Write
  PROVE  Inv'
<1>0. FilesOK /\ GuestOK /\ SettingsSurvive /\ WorkOK /\ Off /\ Writing /\ Ready /\ Done
  BY Parts
<1> DEFINE t == Target(pc)  x == work.new
<1>1. /\ UNCHANGED <<unit, pending, guest, mine, faults>> /\ pc \in DOMAIN After /\ x # None
      /\ files' = [files EXCEPT ![t] = x] /\ Goto(After[pc], [work EXCEPT !.new = None])
  BY DEF Write
<1>2. t \in FileNames /\ (pc \in {"copy", "normalize"} => t = "stored")
      /\ (pc \notin {"copy", "normalize"} => t = pc)
  BY <1>1, TargetIs
<1>3. /\ x \in Content[t] /\ Has(pc, work.manifest, x)
      /\ pc = "copy" => x = work.given
      /\ pc = "normalize" => x.legacy = None /\ (work.given # None => x = Normalize(work.given))
      /\ pc = "config" => x.own = mine
  BY <1>0, <1>1 DEF WorkOK, Writing
<1>4. /\ pc' = After[pc] /\ work'.given = work.given /\ work'.manifest = work.manifest
      /\ work'.restart = work.restart /\ work'.new = None
      /\ work' = [given |-> work.given, manifest |-> work.manifest, restart |-> work.restart,
                  new |-> None]
  BY <1>0, <1>1 DEF Goto, WorkOK
<1> HIDE DEF t, x
<1>5. /\ FilesOK' /\ files'[t] = x /\ \A f \in FileNames \ {t} : files'[f] = files[f]
  BY <1>0, <1>1, <1>2, <1>3, SetFile
<1>6. GuestOK' /\ WorkOK' /\ Off' /\ Writing'
  BY <1>0, <1>1, <1>4, Afters DEF GuestOK, WorkOK, Off, Writing, Labels, guest
<1>7. SettingsSurvive'
  BY <1>0, <1>1, <1>2, <1>3, <1>5, Names, NotContent DEF SettingsSurvive, Whole
<1>8. Ready' /\ Done'
  <2>1. CASE pc = "copy"
    BY <1>0, <1>2, <1>3, <1>4, <1>5, <2>1, Afters, NotContent DEF Ready, Done, Applying
  <2>2. CASE pc = "normalize"
    BY <1>0, <1>2, <1>3, <1>4, <1>5, <2>2, Afters, Names DEF Ready, Done, Applying
  <2>3. CASE pc = "env"
    <3>1. \A p \in Profiles : work.manifest.profiles[p] # None =>
            work.manifest.profiles[p] \in work.manifest.env
      BY <1>0, <2>3 DEF Ready, Applying, Applicable, Valid
    <3> QED
      BY <1>0, <1>2, <1>3, <1>4, <1>5, <2>3, <3>1, Afters, Names DEF Ready, Done, Applying, Has
  <2>4. CASE pc = "config"
    BY <1>0, <1>2, <1>3, <1>4, <1>5, <2>4, Afters, Names DEF Ready, Done, Applying
  <2>5. CASE pc = "auth"
    BY <1>0, <1>2, <1>3, <1>4, <1>5, <2>5, Afters, Names DEF Ready, Done, Applying
  <2>6. CASE pc = "allow"
    BY <1>0, <1>2, <1>3, <1>4, <1>5, <2>6, Afters, Names DEF Ready, Done, Applying
  <2>7. CASE pc = "access"
    BY <1>0, <1>2, <1>3, <1>4, <1>5, <2>7, Afters, Names DEF Ready, Done, Applying
  <2> QED
    BY <1>1, <2>1, <2>2, <2>3, <2>4, <2>5, <2>6, <2>7, Afters
<1> QED
  BY <1>5, <1>6, <1>7, <1>8, PartsNext

LEMMA InvStep == Inv /\ [Next]_vars => Inv'
<1> SUFFICES ASSUME Inv, [Next]_vars PROVE Inv'
  OBVIOUS
<1>0. FilesOK /\ GuestOK /\ SettingsSurvive /\ WorkOK /\ Off /\ Writing /\ Ready /\ Done
  BY Parts
<1>1. CASE Validate
  <2>1. /\ pc = "validate" /\ UNCHANGED <<files, unit, pending, guest, mine, faults>>
        /\ files["stored"] \in Manifest /\ files["stored"].legacy = None
        /\ work.given # None => files["stored"] = Normalize(work.given)
    BY <1>0, <1>1 DEF Validate, Ready
  <2>2. FilesOK' /\ GuestOK' /\ SettingsSurvive'
    BY <1>0, <2>1 DEF FilesOK, GuestOK, SettingsSurvive, Whole, guest
  <2>3. CASE Finish
    BY <2>2, <2>3, EndInv DEF GuestOK
  <2>4. CASE Valid(files["stored"]) /\ Goto("env", [work EXCEPT !.manifest = files["stored"]])
    <3>1. files["stored"] \in Applicable
      BY <2>1, <2>4 DEF Applicable
    <3>2. /\ pc' = "env" /\ work.new = None
          /\ work' = [given |-> work.given, manifest |-> files["stored"],
                      restart |-> work.restart, new |-> work.new]
      BY <1>0, <2>1, <2>4, Afters DEF Goto, WorkOK
    <3>3. WorkOK' /\ Off' /\ Writing' /\ Ready' /\ Done'
      BY <1>0, <2>1, <3>1, <3>2, Afters
      DEF WorkOK, Off, Writing, Ready, Done, Labels, Applying, guest
    <3> QED
      BY <2>2, <3>3, PartsNext
  <2> QED
    BY <1>1, <2>3, <2>4 DEF Validate
<1>2. CASE InstallUnit \/ QueueRestart
  <2>1. /\ UNCHANGED <<files, guest, mine, faults, work>>
        /\ (pc = "unit" /\ pc' = "flag") \/ (pc = "flag" /\ pc' = "access")
        /\ unit' \in BOOLEAN /\ pending' \in BOOLEAN
    BY <1>0, <1>2 DEF InstallUnit, QueueRestart, Goto, GuestOK
  <2>2. FilesOK' /\ GuestOK' /\ SettingsSurvive'
    BY <1>0, <2>1 DEF FilesOK, GuestOK, SettingsSurvive, Whole, guest
  <2>3. work.new = None
    BY <1>0, <2>1, Afters DEF WorkOK
  <2>4. WorkOK' /\ Off' /\ Writing' /\ Ready' /\ Done'
    BY <1>0, <2>1, <2>3, Afters DEF WorkOK, Off, Writing, Ready, Done, Labels, Applying, guest
  <2> QED
    BY <2>2, <2>4, PartsNext
<1>3. CASE Start \/ CutShort
  <2>1. /\ Finish /\ UNCHANGED <<files, mine>> /\ GuestOK'
        /\ (pc = "start" /\ UNCHANGED faults) \/ faults'["cut"] > 0
    BY <1>0, <1>3, FaultOK DEF Start, CutShort, Boots, guest, GuestOK, FaultKinds
  <2>2. FilesOK' /\ SettingsSurvive'
    BY <1>0, <2>1 DEF FilesOK, SettingsSurvive, Whole
  <2> QED
    BY <2>1, <2>2, EndInv DEF GuestOK
<1>4. CASE Boot \/ Shutdown
  BY <1>0, <1>4, GuestInv DEF Boot, Shutdown, Boots, GuestOK
<1>5. CASE GatewayStarts \/ GatewayEnds
  BY <1>0, <1>5, GuestInv DEF GatewayStarts, GatewayEnds, GuestOK, Whole, FilesOK, Off
<1>6. CASE RefreshStarts \/ RefreshClears
  <2>1. /\ UNCHANGED <<files, unit, awake, gateway, mine, pc, work, faults>>
        /\ pending' \in BOOLEAN /\ refresh' \in {"restart", "clear", "done"}
    BY <1>0, <1>6 DEF RefreshStarts, RefreshClears, GuestOK
  <2>2. GuestOK' /\ (pc = "idle" \/ ~awake')
    BY <1>0, <2>1 DEF GuestOK, Off
  <2> QED
    BY <2>1, <2>2, GuestInv
<1>7. CASE RefreshRestarts
  <2>1. /\ gateway' \in Config \cup {None} /\ refresh' \in {"clear", "done"}
        /\ UNCHANGED <<files, unit, pending, awake, mine, pc, work>>
        /\ faults' \in [FaultKinds -> Nat] /\ (faults["cut"] > 0 => faults'["cut"] > 0)
    BY <1>0, <1>7, FaultOK DEF RefreshRestarts, Whole, FilesOK, FaultKinds, GuestOK
  <2> QED
    BY <1>0, <2>1, GuestInv DEF GuestOK, Off
<1>8. CASE UserSets
  <2>1. /\ awake /\ files["config"] \in Config /\ UNCHANGED <<unit, pending, guest, pc, work, faults>>
        /\ pc = "idle" /\ work.new = None /\ files["config"].own = mine
    BY <1>0, <1>8, Afters, NotContent DEF UserSets, Whole, FilesOK, Off, WorkOK, SettingsSurvive
  <2> DEFINE Becomes(x) == /\ files' = [files EXCEPT !["config"] = x] /\ x.own = mine'
                          /\ mine' \in Settings \cup {None}
  <2>2. \E x \in Config : Becomes(x)
    <3>1. ASSUME NEW v \in Settings,
                 files' = [files EXCEPT !["config"] = [@ EXCEPT !.own = v]] /\ mine' = v
          PROVE  \E x \in Config : Becomes(x)
      <4> DEFINE y == [files["config"] EXCEPT !.own = v]
      <4>1. y \in Config /\ y.own = v
        BY <2>1 DEF Config
      <4>2. files' = [files EXCEPT !["config"] = y]
        BY <1>0, <3>1, Names DEF FilesOK
      <4> HIDE DEF y
      <4> QED
        BY <3>1, <4>1, <4>2
    <3>2. ASSUME NEW d \in Models, UNCHANGED mine,
                 files' = [files EXCEPT !["config"] = [@ EXCEPT !.model = d]]
          PROVE  \E x \in Config : Becomes(x)
      <4> DEFINE y == [files["config"] EXCEPT !.model = d]
      <4>1. y \in Config /\ y.own = mine
        BY <2>1 DEF Config
      <4>2. files' = [files EXCEPT !["config"] = y]
        BY <1>0, <3>2, Names DEF FilesOK
      <4> HIDE DEF y
      <4> QED
        BY <1>0, <3>2, <4>1, <4>2 DEF GuestOK
    <3> HIDE DEF Becomes
    <3> QED
      BY <1>8, <3>1, <3>2 DEF UserSets
  <2>3. PICK x \in Config : Becomes(x)
    BY <2>2
  <2>4. FilesOK' /\ files'["config"] = x
    BY <1>0, <2>3, SetFile, Names
  <2>5. GuestOK' /\ SettingsSurvive' /\ WorkOK' /\ Off' /\ Writing' /\ Ready' /\ Done'
    BY <1>0, <2>1, <2>3, <2>4, NotContent, Names
    DEF GuestOK, SettingsSurvive, Whole, WorkOK, Off, Writing, Ready, Done, Applying, guest
  <2> QED
    BY <2>4, <2>5, PartsNext
<1>9. CASE UNCHANGED vars
  BY <1>0, <1>9, PartsNext
  DEF vars, guest, FilesOK, GuestOK, SettingsSurvive, Whole, WorkOK, Off, Writing, Ready, Done
<1> QED
  BY <1>1, <1>2, <1>3, <1>4, <1>5, <1>6, <1>7, <1>8, <1>9, ActivateInv, SkipInv, TruncateInv,
     WriteInv DEF Next, Activation

THEOREM AlwaysInv == Spec => []Inv
  BY InitInv, InvStep, PTL DEF Spec

\* The files, the guest and the activation keep their types.
THEOREM TypeCorrect == Spec => []TypeOK
<1>1. Inv => TypeOK
  BY DEF Inv
<1> QED
  BY <1>1, AlwaysInv, PTL

\* What the user set where no manifest has a say stays in openclaw.json through
\* every activation, and is lost only to a cut, with the whole file.
THEOREM SettingsAreSafe == Spec => []SettingsSurvive
<1>1. Inv => SettingsSurvive
  BY DEF Inv
<1> QED
  BY <1>1, AlwaysInv, PTL

LEMMA StartApplied ==
  ASSUME Inv, pc = "start"
  PROVE  Applied(IF work.given # None THEN work.given ELSE files["stored"])
<1> DEFINE m == work.manifest
<1>0. Ready /\ Done /\ WorkOK
  BY Parts
<1>1. /\ m \in Applicable /\ m = files["stored"]
      /\ work.given # None => work.given \in Manifest /\ m = Normalize(work.given)
  BY <1>0, ConfigAssumption DEF Ready, Applying, WorkOK
<1>2. Applied(m)
  BY <1>0 DEF Done, Applying, Has, Applied
<1>3. ASSUME work.given # None PROVE Applied(work.given)
  BY <1>1, <1>2, <1>3, NormalizeIs DEF Applied
<1> QED
  BY <1>1, <1>2, <1>3

\* An activation that ends by itself has applied all the parts that the manifest
\* it was given has.
THEOREM ActivationIsSafe == Spec => ActivationApplies
<1>1. Inv /\ [Next]_vars =>
        [pc = "start" /\ pc' = "idle" /\ faults' = faults
           => Applied(IF work.given # None THEN work.given ELSE files["stored"])]_vars
  BY StartApplied
<1> QED
  BY <1>1, AlwaysInv, PTL DEF Spec, ActivationApplies

=============================================================================
