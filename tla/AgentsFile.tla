----------------------------- MODULE AgentsFile -----------------------------
(***************************************************************************)
(* A guest's AGENTS.md (hostctl.py), in which three programs keep a part   *)
(* each: activation and the guest's refresh service the company addendum,  *)
(* the onboarding script its block, and the agent its own text.  None of   *)
(* them locks the file; each reads it and later writes all of it.          *)
(*                                                                         *)
(* Simplifications: the file is a sequence of markers, each with what      *)
(* belongs to it, and of texts; blanks are left out; a write is one step.  *)
(***************************************************************************)
EXTENDS Naturals, Sequences, FiniteSetsExt

CONSTANTS
  Texts,        \* what the agent and its user write
  StartLimit,   \* systemd's StartLimitBurst
  MaxReleases,  \* bounds: releases of the addendum, edits, boots, interviews
  MaxEdits, MaxBoots, MaxScripts,
  MaxLength,    \* bound on the file
  Absent

Start == [kind |-> "start", id |-> 0]  \* the onboarding marker and instructions
End == [kind |-> "end", id |-> 0]
Company(r) == [kind |-> "company", id |-> r]
Text(t) == [kind |-> "text", id |-> t]

Releases == 1 .. MaxReleases
Tokens == {Start, End} \cup {Company(r) : r \in Releases} \cup {Text(t) : t \in Texts}

ASSUME AgentsAssumption ==
  /\ {StartLimit, MaxReleases, MaxEdits, MaxBoots, MaxScripts, MaxLength} \subseteq Nat
  /\ MaxReleases > 0 /\ Texts \subseteq Nat

VARIABLES
  file,      \* AGENTS.md, or Absent
  awake,     \* does the guest run?
  release,   \* of the addendum in the refresh script the guest has
  starts,    \* how often systemd started the refresh since the boot
  read,      \* what each program between its read and its write has read, or Absent
  edits, boots, scripts  \* what was used of the bounds

Programs == {"refresh", "script", "agent"}

vars == <<file, awake, release, starts, read, edits, boots, scripts>>

Init ==
  /\ file = Absent /\ awake = FALSE
  /\ release = 1   \* a provision installs the script, too
  /\ starts = 0 /\ edits = 0 /\ boots = 0 /\ scripts = 0
  /\ read = [x \in Programs |-> Absent]

-----------------------------------------------------------------------------
(* The two rewrites *)

Places(f, kind) == {i \in DOMAIN f : f[i].kind = kind}
Has(f, kind) == Places(f, kind) # {}
Find(f, kind) == Min(Places(f, kind))

Before(f, i) == SubSeq(f, 1, i - 1)
From(f, i) == SubSeq(f, i, Len(f))

\* Mutant: an addendum that is there is left alone.
MutAddendumOnce(f, r) == IF Has(f, "company") THEN f ELSE Append(f, Company(r))

\* The addendum replaces the old one and all that follows it.
Addendum(f, r) ==
  Append(IF Has(f, "company") THEN Before(f, Find(f, "company")) ELSE f, Company(r))

Block == <<Start, End>>

\* Mutant: the block goes to the end of a file that has none.
MutUpsertAtEnd(f) ==
  IF Has(f, "start") /\ Has(f, "end") /\ Find(f, "end") > Find(f, "start")
    THEN Before(f, Find(f, "start")) \o Block \o From(f, Find(f, "end") + 1)
    ELSE f \o Block

\* Mutant: without an end marker the rest of the file is the block.
MutUpsertToEnd(f) ==
  IF Has(f, "start")
    THEN Before(f, Find(f, "start")) \o Block \o
         (IF Has(f, "end") THEN From(f, Find(f, "end") + 1) ELSE << >>)
  ELSE IF Has(f, "company")
    THEN Before(f, Find(f, "company")) \o Block \o From(f, Find(f, "company"))
  ELSE f \o Block

\* The block replaces the old one, which without an end marker extends to the
\* addendum, or goes before the addendum.
Upsert(f) ==
  LET start == Find(f, "start")
      end == Find(f, "end")
      after == {i \in Places(f, "company") : Has(f, "start") => i > start}
      rest == IF after = {} THEN << >> ELSE From(f, Min(after))
  IN IF Has(f, "start") /\ Has(f, "end") /\ end > start
       THEN Before(f, start) \o Block \o From(f, end + 1)
     ELSE IF Has(f, "start") THEN Before(f, start) \o Block \o rest
     ELSE IF after # {} THEN Before(f, Min(after)) \o Block \o rest
     ELSE f \o Block

-----------------------------------------------------------------------------
(* The host *)

\* An activation, with the guest off: a newer release may have another addendum.
Activate ==
  /\ ~awake
  /\ \E r \in Releases :
       /\ r >= release
       /\ release' = r
       /\ file' = IF file = Absent THEN Absent ELSE Addendum(file, r)
  /\ UNCHANGED <<awake, starts, read, edits, boots, scripts>>

Boot ==
  /\ ~awake /\ boots < MaxBoots
  /\ awake' = TRUE /\ starts' = 0 /\ boots' = boots + 1
  /\ UNCHANGED <<file, release, read, edits, scripts>>

\* What runs in the guest ends with it.
Shutdown ==
  /\ awake /\ awake' = FALSE
  /\ read' = [x \in Programs |-> Absent]
  /\ UNCHANGED <<file, release, starts, edits, boots, scripts>>

-----------------------------------------------------------------------------
(* The refresh service *)

\* PathExists starts the service again as soon as it ended, until systemd's
\* limit stops the path unit for the rest of the boot.
Triggered == file # Absent /\ starts < StartLimit

RefreshReads ==
  /\ awake /\ read["refresh"] = Absent /\ Triggered
  /\ starts' = starts + 1
  /\ read' = [read EXCEPT !["refresh"] = file]
  /\ UNCHANGED <<file, awake, release, edits, boots, scripts>>

\* Nothing is written when nothing changes.
RefreshWrites ==
  /\ read["refresh"] # Absent
  /\ LET f == Addendum(read["refresh"], release) IN
     file' = IF f = read["refresh"] THEN file ELSE f
  /\ read' = [read EXCEPT !["refresh"] = Absent]
  /\ UNCHANGED <<awake, release, starts, edits, boots, scripts>>

-----------------------------------------------------------------------------
(* The onboarding script, and the agent *)

ScriptReads ==
  /\ awake /\ read["script"] = Absent /\ scripts < MaxScripts
  /\ scripts' = scripts + 1
  /\ read' = [read EXCEPT !["script"] = IF file = Absent THEN << >> ELSE file]
  /\ UNCHANGED <<file, awake, release, starts, edits, boots>>

ScriptWrites ==
  /\ read["script"] # Absent
  /\ LET f == Upsert(read["script"]) IN
     file' = IF f = read["script"] THEN file ELSE f
  /\ read' = [read EXCEPT !["script"] = Absent]
  /\ UNCHANGED <<awake, release, starts, edits, boots, scripts>>

AgentReads ==
  /\ awake /\ read["agent"] = Absent /\ edits < MaxEdits
  /\ edits' = edits + 1
  /\ read' = [read EXCEPT !["agent"] = IF file = Absent THEN << >> ELSE file]
  /\ UNCHANGED <<file, awake, release, starts, boots, scripts>>

\* It inserts a text anywhere, or takes out any text or marker.
AgentWrites ==
  LET f == read["agent"] IN
  /\ f # Absent
  /\ \/ \E t \in Texts, i \in 1 .. Len(f) + 1 :
          /\ Len(f) < MaxLength
          /\ \A j \in DOMAIN f : f[j] # Text(t)
          /\ file' = Before(f, i) \o <<Text(t)>> \o From(f, i)
     \/ \E i \in DOMAIN f : file' = Before(f, i) \o From(f, i + 1)
  /\ read' = [read EXCEPT !["agent"] = Absent]
  /\ UNCHANGED <<awake, release, starts, edits, boots, scripts>>

-----------------------------------------------------------------------------
Next ==
  \/ Activate \/ Boot \/ Shutdown \/ RefreshReads \/ RefreshWrites
  \/ ScriptReads \/ ScriptWrites \/ AgentReads \/ AgentWrites

Spec == Init /\ [][Next]_vars

\* systemd starts what is triggered, and the refresh, which neither waits nor
\* asks, ends.
LiveSpec == Spec /\ WF_vars(RefreshReads) /\ WF_vars(RefreshWrites)

-----------------------------------------------------------------------------
(* Properties *)

\* The type invariant.
TypeOK ==
  /\ file = Absent \/ file \in Seq(Tokens)
  /\ awake \in BOOLEAN /\ release \in Releases
  /\ starts \in 0 .. StartLimit
  /\ \A x \in Programs : read[x] = Absent \/ read[x] \in Seq(Tokens)
  /\ edits \in 0 .. MaxEdits /\ boots \in 0 .. MaxBoots /\ scripts \in 0 .. MaxScripts

\* Whoever writes over whom, the file has each marker that begins a part at most once, and the
\* onboarding block stays before the company addendum, where a refresh does not
\* cut it off (test_owner_onboarding_block_is_inserted_before_company_addendum).
PartsInOrder ==
  file # Absent =>
    /\ \A i, j \in DOMAIN file :
         file[i].kind = file[j].kind /\ file[i].kind \in {"start", "company"} => i = j
    /\ \A i \in Places(file, "start"), j \in Places(file, "company") : i < j

\* What the two rewrites may take out of what they read: the text from the
\* addendum on, and what is between the onboarding markers, which is all from the
\* start marker to the addendum when there is no end marker or when a stray one,
\* whose start marker was taken out, stands before the start marker.
MayGo(f, x, i) ==
  IF x = "refresh"
    THEN \E c \in Places(f, "company") : c <= i
    ELSE \E s \in Places(f, "start") :
           /\ s < i
           /\ \/ \A e \in Places(f, "end") : s < e => i < e
              \/ \E e \in Places(f, "end") : e < s
           /\ \A c \in Places(f, "company") : s < c => i < c

\* A rewrite of a file nobody touched since it was read keeps every text, and in
\* its order, except those that are its own to replace.
RewritesKeepText ==
  [][\A x \in {"refresh", "script"} :
       read[x] # Absent /\ read[x] = file /\ read'[x] = Absent /\ awake' =>
         /\ \A i \in DOMAIN file :
              file[i].kind = "text" /\ ~MayGo(file, x, i)
                => \E j \in DOMAIN file' : file'[j] = file[i]
         /\ \A i, j \in DOMAIN file, k, l \in DOMAIN file' :
              i < j /\ file'[k] = file[i] /\ file'[l] = file[j] /\ file[i].kind = "text"
                /\ file[j].kind = "text" => k < l
         /\ x = "script" => (Has(file, "company") => Has(file', "company"))]_vars

\* After a boot the addendum of the last activation is in the file, whatever was
\* there before, once the file exists.
AddendumIsRefreshed ==
  (awake /\ starts = 0 /\ file # Absent)
    ~> (~awake \/ (file # Absent /\ Company(release) \in {file[i] : i \in DOMAIN file}))

=============================================================================
