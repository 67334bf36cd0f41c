---------------------------- MODULE GuestConfig ----------------------------
(***************************************************************************)
(* What an employee's manifest makes of a guest (hostctl.py): activations  *)
(* store, normalize and validate it, write its parts into the files of     *)
(* OpenClaw on the guest's disk, merging them with what is there, and      *)
(* queue a restart of the gateway for the next boot.                       *)
(*                                                                         *)
(* Simplifications: one activation at a time, while which the guest is off *)
(* (HostLifecycle has what else can happen); a file is truncated, then     *)
(* written; of openclaw.json, the Slack section, the profiles, the default *)
(* model, and as one value what no manifest has a say in; a gateway starts *)
(* if it can read openclaw.json.                                           *)
(***************************************************************************)
EXTENDS Naturals

CONSTANTS
  EnvKeys, Profiles, Tokens, Lists,  \* names of keys and auth profiles; Slack's
  Models,       \* what agents.defaults.model.primary can be
  Manifests,    \* those that are activated
  Settings,     \* what users set in openclaw.json where no manifest has a say
  MaxFaults,    \* bounds on the faults of each kind
  Absent, Torn, None

\* An activation is cut short (it is killed, or a write finds the disk full),
\* and the gateway's restart fails.
FaultKinds == {"cut", "restart"}

\* The Slack section, or None when it is missing or empty.
Slack == [token : Tokens \cup {None}, allow : Lists \cup {None}]
Auth == [Profiles -> EnvKeys \cup {None}]

Access == {"opt_in", "opt_out"}

\* `legacy` is openclaw.slack, where older manifests have the section. There is
\* no model where `openclaw` is null, and no access where shared_access is null:
\* one that is missing opts out.
Manifest ==
  [env : SUBSET EnvKeys, profiles : Auth,
   slack : Slack \cup {None}, legacy : Slack \cup {None},
   model : Models \cup {None}, access : Access \cup {None}, owner : BOOLEAN]

Config ==
  [slack : Tokens \cup {None}, profiles : SUBSET Profiles,
   model : Models \cup {None}, own : Settings \cup {None}]

\* The files: user-config.json on the host, and .env, openclaw.json,
\* auth-profiles.json, slack-default-allowFrom.json, shared-access.json.
Content ==
  [stored |-> Manifest, env |-> SUBSET EnvKeys, config |-> Config, auth |-> Auth,
   allow |-> Lists, access |-> Access]

FileNames == DOMAIN Content

ASSUME ConfigAssumption ==
  /\ Manifests \subseteq Manifest
  /\ MaxFaults \in [FaultKinds -> Nat]
  /\ None \notin Slack \cup EnvKeys \cup Tokens \cup Lists \cup Settings
  /\ \A f \in FileNames, x \in {Absent, Torn, None} : \A c \in Content[f] : c # x
  /\ Absent # Torn /\ None # Absent

VARIABLES
  files,    \* their contents
  unit,     \* is openclaw-gateway.service installed?
  pending,  \* the flag pending-gateway-restart
  awake,    \* does the guest run?
  refresh,  \* what openclaw-activation-refresh does in this boot
  gateway,  \* the openclaw.json the gateway runs with
  mine,     \* what the user last set in openclaw.json where no manifest has a say
  pc, work, \* what the activation does next, and its local variables
  faults

guest == <<awake, refresh, gateway>>
vars == <<files, unit, pending, guest, mine, pc, work, faults>>

NoWork == [given |-> None, manifest |-> None, restart |-> FALSE, new |-> None]

Init ==
  /\ files = [f \in FileNames |-> Absent]
  /\ unit = FALSE /\ pending = FALSE
  /\ awake = FALSE /\ refresh = "off" /\ gateway = None
  /\ mine = None
  /\ pc = "idle" /\ work = NoWork
  /\ faults = [k \in FaultKinds |-> 0]

Goto(l, w) == pc' = l /\ work' = w

Finish == Goto("idle", NoWork)

Fault(k) == faults[k] < MaxFaults[k] /\ faults' = [faults EXCEPT ![k] = @ + 1]

Whole(f) == files[f] \notin {Absent, Torn}

-----------------------------------------------------------------------------
(* Manifests *)

\* _extract_slack_manifest
SlackOf(m) == IF m.slack # None THEN m.slack ELSE m.legacy

AllowOf(m) == IF SlackOf(m) = None THEN None ELSE SlackOf(m).allow

\* The older section is moved to the newer place if that is empty.
Normalize(m) == [m EXCEPT !.slack = SlackOf(m), !.legacy = None]

Valid(m) ==
  /\ \A p \in Profiles : m.profiles[p] # None => m.profiles[p] \in m.env
  /\ SlackOf(m) # None => SlackOf(m).token # None
  /\ m.access = "opt_in" => m.owner

-----------------------------------------------------------------------------
(* Activation *)

\* The command stops a guest that runs, with --force, and starts it afterwards.
Activate ==
  /\ pc = "idle"
  /\ \E m \in Manifests \cup {None}, restart \in BOOLEAN :
       /\ m = None => files["stored"] # Absent
       /\ Goto(IF m = None THEN "normalize" ELSE "copy",
               [NoWork EXCEPT !.given = m, !.restart = restart \/ awake])
  /\ awake' = FALSE /\ refresh' = "off" /\ gateway' = None
  /\ UNCHANGED <<files, unit, pending, mine, faults>>

Target(l) == IF l \in {"copy", "normalize"} THEN "stored" ELSE l

After ==
  [copy |-> "normalize", normalize |-> "validate", env |-> "config",
   config |-> "auth", auth |-> "allow", allow |-> "unit", access |-> "start"]

\* Mutant: openclaw.json is made anew.
MutNewConfig(m, old) ==
  [slack |-> IF SlackOf(m) # None THEN SlackOf(m).token ELSE None,
   profiles |-> {p \in Profiles : m.profiles[p] # None},
   model |-> m.model, own |-> None]

\* What openclaw.json becomes; an old one that is Absent is an empty object.
NewConfig(m, old) ==
  [slack |-> IF SlackOf(m) # None THEN SlackOf(m).token
             ELSE IF old = Absent THEN None ELSE old.slack,
   profiles |-> {p \in Profiles : m.profiles[p] # None}
                  \cup (IF old = Absent THEN {} ELSE old.profiles),
   model |-> IF m.model # None THEN m.model ELSE IF old = Absent THEN None ELSE old.model,
   own |-> IF old = Absent THEN None ELSE old.own]

\* Mutant: a profile that is there is kept.
MutNewAuth(m, old) ==
  [p \in Profiles |->
     IF old # Absent /\ old[p] # None THEN old[p] ELSE m.profiles[p]]

NewAuth(m, old) ==
  [p \in Profiles |->
     IF m.profiles[p] # None THEN m.profiles[p] ELSE IF old = Absent THEN None ELSE old[p]]

New(l) ==
  LET m == work.manifest  old == files[Target(l)]
  IN CASE l = "copy" -> work.given
       [] l = "normalize" -> Normalize(old)
       [] l = "env" -> m.env
       [] l = "config" -> NewConfig(m, old)
       [] l = "auth" -> NewAuth(m, old)
       [] l = "allow" -> AllowOf(m)
       [] l = "access" -> m.access

\* A part the manifest does not have is left as it is.
Skips(l) ==
  LET m == work.manifest IN
  \/ l = "env" /\ m.env = {}
  \/ l = "allow" /\ AllowOf(m) = None
  \/ l = "access" /\ m.access = None

\* Half a JSON file is an error where the old one is read.
Unreadable(l) == l \in {"normalize", "config", "auth"} /\ files[Target(l)] = Torn

SkipFile ==
  /\ pc \in DOMAIN After /\ work.new = None /\ Skips(pc)
  /\ Goto(After[pc], work)
  /\ UNCHANGED <<files, unit, pending, guest, mine, faults>>

Truncate ==
  /\ pc \in DOMAIN After /\ work.new = None /\ ~Skips(pc)
  /\ IF Unreadable(pc)
       THEN Finish /\ UNCHANGED files
       ELSE /\ files' = [files EXCEPT ![Target(pc)] = Torn]
            /\ Goto(pc, [work EXCEPT !.new = New(pc)])
  /\ UNCHANGED <<unit, pending, guest, mine, faults>>

Write ==
  /\ pc \in DOMAIN After /\ work.new # None
  /\ files' = [files EXCEPT ![Target(pc)] = work.new]
  /\ Goto(After[pc], [work EXCEPT !.new = None])
  /\ UNCHANGED <<unit, pending, guest, mine, faults>>

Validate ==
  /\ pc = "validate"
  /\ LET m == files["stored"] IN
     IF Valid(m) THEN Goto("env", [work EXCEPT !.manifest = m]) ELSE Finish
  /\ UNCHANGED <<files, unit, pending, guest, mine, faults>>

InstallUnit ==
  /\ pc = "unit"
  /\ unit' = TRUE /\ Goto("flag", work)
  /\ UNCHANGED <<files, pending, guest, mine, faults>>

QueueRestart ==
  /\ pc = "flag"
  /\ pending' = TRUE /\ Goto("access", work)
  /\ UNCHANGED <<files, unit, guest, mine, faults>>

Boots == awake' = TRUE /\ refresh' = "wait" /\ UNCHANGED gateway

\* The disk is unmounted, and the guest started if it is to be.
Start ==
  /\ pc = "start" /\ Finish
  /\ IF work.restart THEN Boots ELSE UNCHANGED guest
  /\ UNCHANGED <<files, unit, pending, mine, faults>>

\* Within a write, the file is left empty.
CutShort ==
  /\ pc # "idle" /\ Fault("cut")
  /\ Finish
  /\ UNCHANGED <<files, unit, pending, guest, mine>>

-----------------------------------------------------------------------------
(* The guest *)

Boot ==
  /\ pc = "idle" /\ ~awake /\ Boots
  /\ UNCHANGED <<files, unit, pending, mine, pc, work, faults>>

Shutdown ==
  /\ awake
  /\ awake' = FALSE /\ refresh' = "off" /\ gateway' = None
  /\ UNCHANGED <<files, unit, pending, mine, pc, work, faults>>

\* The user's systemd starts the gateway, at the boot and when it ended.
GatewayStarts ==
  /\ awake /\ gateway = None /\ unit /\ Whole("config")
  /\ gateway' = files["config"]
  /\ UNCHANGED <<files, unit, pending, awake, refresh, mine, pc, work, faults>>

GatewayEnds ==
  /\ gateway # None /\ gateway' = None
  /\ UNCHANGED <<files, unit, pending, awake, refresh, mine, pc, work, faults>>

\* openclaw-activation-refresh.sh
RefreshStarts ==
  /\ awake /\ refresh = "wait"
  /\ refresh' = IF ~pending THEN "done" ELSE IF unit THEN "restart" ELSE "clear"
  /\ UNCHANGED <<files, unit, pending, awake, gateway, mine, pc, work, faults>>

\* A restart that fails, of both kinds, ends the script, and the flag stays.
RefreshRestarts ==
  /\ refresh = "restart"
  /\ \/ /\ Whole("config") /\ gateway' = files["config"] /\ refresh' = "clear"
        /\ UNCHANGED faults
     \/ ~Whole("config") /\ gateway' = None /\ refresh' = "done" /\ UNCHANGED faults
     \/ Fault("restart") /\ gateway' = None /\ refresh' = "done"
  /\ UNCHANGED <<files, unit, pending, awake, mine, pc, work>>

\* Mutant: the flag stays, and every boot restarts the gateway.
MutRefreshClears ==
  /\ refresh = "clear" /\ refresh' = "done"
  /\ UNCHANGED <<files, unit, pending, awake, gateway, mine, pc, work, faults>>

RefreshClears ==
  /\ refresh = "clear"
  /\ pending' = FALSE /\ refresh' = "done"
  /\ UNCHANGED <<files, unit, awake, gateway, mine, pc, work, faults>>

\* A user changes openclaw.json on the running guest: the default model, or the rest.
UserSets ==
  /\ awake /\ Whole("config")
  /\ \/ \E v \in Settings :
          files' = [files EXCEPT !["config"] = [@ EXCEPT !.own = v]] /\ mine' = v
     \/ \E d \in Models :
          files' = [files EXCEPT !["config"] = [@ EXCEPT !.model = d]] /\ UNCHANGED mine
  /\ UNCHANGED <<unit, pending, guest, pc, work, faults>>

-----------------------------------------------------------------------------
Activation ==
  \/ Activate \/ SkipFile \/ Truncate \/ Write \/ Validate \/ InstallUnit
  \/ QueueRestart \/ Start \/ CutShort

Next ==
  \/ Activation
  \/ Boot \/ Shutdown \/ GatewayStarts \/ GatewayEnds
  \/ RefreshStarts \/ RefreshRestarts \/ RefreshClears \/ UserSets

Spec == Init /\ [][Next]_vars

\* systemd starts what is enabled, and keeps the gateway up.
Fairness ==
  /\ WF_vars(RefreshStarts) /\ WF_vars(RefreshRestarts) /\ WF_vars(RefreshClears)
  /\ SF_vars(GatewayStarts)

LiveSpec == Spec /\ Fairness

-----------------------------------------------------------------------------
(* Properties *)

\* What is applied is valid and in the newer form.
Applicable == {m \in Manifest : Valid(m) /\ m.legacy = None}

\* The type invariant.
TypeOK ==
  /\ DOMAIN files = FileNames
  /\ \A f \in FileNames : files[f] \in Content[f] \cup {Absent, Torn}
  /\ unit \in BOOLEAN /\ pending \in BOOLEAN /\ awake \in BOOLEAN
  /\ refresh \in {"off", "wait", "restart", "clear", "done"}
  /\ gateway \in Config \cup {None}
  /\ mine \in Settings \cup {None}
  /\ pc \in {"idle", "validate", "unit", "flag", "start"} \cup DOMAIN After
  /\ work.given \in Manifests \cup {None} /\ work.manifest \in Applicable \cup {None}
  /\ work.restart \in BOOLEAN
  /\ work.new # None => pc \in DOMAIN After /\ work.new \in Content[Target(pc)]
  /\ faults \in [FaultKinds -> Nat]

\* The guest has what the manifest says, whatever it had before.
Applied(m) ==
  /\ \A p \in Profiles :
       m.profiles[p] # None =>
         /\ p \in files["config"].profiles
         /\ files["auth"][p] = m.profiles[p] /\ m.profiles[p] \in files["env"]
  /\ SlackOf(m) # None => files["config"].slack = SlackOf(m).token
  /\ AllowOf(m) # None => files["allow"] = AllowOf(m)
  /\ m.model # None => files["config"].model = m.model
  /\ m.access # None => files["access"] = m.access

\* An activation that runs to its end has applied every part that the manifest it
\* was given has, as it was before it was normalized, on top of whatever earlier
\* activations, finished or cut short, left. Parts it does not have stay as they
\* are: with a shared_access that is null, so does an earlier opt-in.
ActivationApplies ==
  [][pc = "start" /\ pc' = "idle" /\ faults' = faults
       => Applied(IF work.given # None THEN work.given ELSE files["stored"])]_vars

\* What the user set where no manifest has a say is in openclaw.json, whatever was
\* activated: also half-written files, activations that end early, and a file that
\* is not there lose none of it. It is out of the file only while the activation
\* that holds it rewrites the file, and lost, with the whole file, only to a cut.
SettingsSurvive ==
  \/ Whole("config") /\ files["config"].own = mine
  \/ files["config"] = Absent /\ mine = None
  \/ /\ files["config"] = Torn
     /\ faults["cut"] > 0 \/ (pc = "config" /\ work.new # None /\ work.new.own = mine)

NoFaultYet == \A k \in FaultKinds : faults[k] = 0

\* "queues a guest-side gateway reload/restart on the next boot so the new config
\* is live automatically" (operations.md:256): without a fault, an activation that
\* was finished is live in a guest that stays up.
ActivatedIsLive ==
  []NoFaultYet =>
    ((awake /\ unit /\ refresh = "wait") ~>
       \/ ~awake
       \/ /\ ~pending /\ gateway # None
          /\ gateway.slack = files["config"].slack
          /\ gateway.profiles = files["config"].profiles)

=============================================================================
