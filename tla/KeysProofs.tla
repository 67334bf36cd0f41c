----------------------------- MODULE KeysProofs -----------------------------
(***************************************************************************)
(* No key opens the broker as somebody else's guest, for any guests and    *)
(* any commands that run at once or are cut short: wherever a key is kept  *)
(* or held, it is where the keys of its guest are.  The second part is     *)
(* about commands that follow one another: they match the pairs, keep the  *)
(* guests connected, and reconcile connects them again.                    *)
(***************************************************************************)
EXTENDS GoogleKeys, TLAPS

KeysOf(g) == {k \in Keys : k.guest = g}

\* What a command's local variables are when it is about to do l.
Fits(l, w) ==
  /\ l # "idle" /\ w.cmd # "reconcile" => w.guest \in Guests
  /\ l \in {"keygen", "keygen_pub", "install", "save"} => w.cmd # "reconcile"
  /\ l = "keygen_pub" => w.key \in KeysOf(w.guest)
  /\ l \in {"fill_priv", "derive", "fill_pub"} => w.at \in Guests
  /\ l \in {"fill_priv", "fill_pub"} => w.key \in KeysOf(w.at)
  /\ \A g \in Guests : w.lines[g] \in KeysOf(g) \cup {None}

\* The keys that are kept, each at its guest.
Kept ==
  /\ priv \in [Guests -> Keys \cup {Absent, Torn}]
  /\ pub \in [Guests -> Keys \cup {Absent, Torn}]
  /\ disk \in [Guests -> Keys \cup {Absent}]
  /\ saved \in [Guests -> SUBSET (Keys \cup {Absent})]
  /\ authorized \in LineSet
  /\ \A g \in Guests :
       /\ priv[g] \in KeysOf(g) \cup {Absent, Torn} /\ pub[g] \in KeysOf(g) \cup {Absent, Torn}
       /\ disk[g] \in KeysOf(g) \cup {Absent} /\ saved[g] \subseteq KeysOf(g) \cup {Absent}
       /\ authorized[g] \in KeysOf(g) \cup {None}

Running ==
  /\ pc \in [Operators -> Labels] /\ work \in [Operators -> Work]
  /\ \A p \in Operators : Fits(pc[p], work[p])

Counted ==
  /\ record \in SUBSET Guests /\ awake \in SUBSET Guests
  /\ minted \in 0 .. MaxKeys /\ faults \in [FaultKinds -> Nat]

Named == Kept /\ Running /\ Counted

LEMMA NamedImplies == Named => TypeOK /\ KeyNamesItsGuest
  BY DEF Named, Kept, Running, Counted, TypeOK, KeyNamesItsGuest, KeysOf

LEMMA NoWorkFits == NoWork \in Work /\ Fits("idle", NoWork)
  BY DEF NoWork, NoLines, LineSet, Work, Fits

LEMMA KeysOfTyped == \A g \in Guests : KeysOf(g) \subseteq Keys
  BY DEF KeysOf

LEMMA NotKeys == Absent \notin Keys /\ Torn \notin Keys /\ None \notin Keys /\ None \notin Guests
  BY KeysAssumption

LEMMA InitNamed == Init => Named
  BY NoWorkFits, KeysAssumption DEF Init, Named, Kept, Running, Counted, NoLines, LineSet, Labels,
     FaultKinds

\* A command that moves on.
LEMMA MoveFits ==
  ASSUME Running, NEW p \in Operators, NEW l \in Labels, NEW w \in Work, Fits(l, w),
         Goto(p, l, w)
  PROVE  Running'
  BY DEF Running, Goto

LEMMA EndFits ==
  ASSUME Running, NEW p \in Operators, Finish(p)
  PROVE  Running'
  BY NoWorkFits, MoveFits DEF Finish, Labels

LEMMA LinesNamed ==
  ASSUME Kept
  PROVE  Lines \in LineSet /\ \A g \in Guests : Lines[g] \in KeysOf(g) \cup {None}
<1>1. \A g \in Guests : Lines[g] \in KeysOf(g) \cup {None}
  BY NotKeys DEF Kept, Lines, KeysOf
<1> QED
  BY <1>1, KeysOfTyped DEF Lines, LineSet

LEMMA FaultCounted ==
  ASSUME Counted, NEW k \in FaultKinds, Fault(k)
  PROVE  faults' \in [FaultKinds -> Nat]
  BY DEF Counted, Fault

LEMMA BeginTyped ==
  ASSUME Counted, NEW c \in {"provision", "activate", "reconcile"}, NEW g \in Guests \cup {None}
  PROVE  /\ Begin(c, g) \in Work /\ Begin(c, g).cmd = c /\ Begin(c, g).guest = g
         /\ Begin(c, g).lines = NoLines
<1> DEFINE m == {h \in record \cap awake : ~HasPair(h)}  k == {h \in record : Connected(h)}
<1>1. m \in SUBSET Guests /\ k \in SUBSET Guests
  BY DEF Counted
<1>2. NoLines \in LineSet
  BY DEF NoLines, LineSet
<1>3. Begin(c, g) = [NoWork EXCEPT !.cmd = c, !.guest = g, !.missing = m, !.kept = k]
  BY DEF Begin
<1> HIDE DEF m, k
<1> QED
  BY <1>1, <1>2, <1>3 DEF NoWork, Work

\* What is noted only for the properties does not matter.
LEMMA NotesFit ==
  ASSUME NEW w \in Work, NEW l, Fits(l, w), NEW g
  PROVE  /\ [w EXCEPT !.missing = @ \ {g}] \in Work
         /\ Fits(l, [w EXCEPT !.missing = @ \ {g}])
         /\ [w EXCEPT !.kept = @ \ {g}, !.missing = @ \ {g}] \in Work
         /\ Fits(l, [w EXCEPT !.kept = @ \ {g}, !.missing = @ \ {g}])
<1> DEFINE a == w.missing \ {g}  b == w.kept \ {g}
<1>1. a \in SUBSET Guests /\ b \in SUBSET Guests
  BY DEF Work
<1>2. /\ [w EXCEPT !.missing = @ \ {g}] = [w EXCEPT !.missing = a]
      /\ [w EXCEPT !.kept = @ \ {g}, !.missing = @ \ {g}] = [w EXCEPT !.kept = b, !.missing = a]
  BY DEF Work
<1> HIDE DEF a, b
<1>3. [w EXCEPT !.missing = a] \in Work /\ Fits(l, [w EXCEPT !.missing = a])
  BY <1>1 DEF Work, Fits
<1>4. /\ [w EXCEPT !.kept = b, !.missing = a] \in Work
      /\ Fits(l, [w EXCEPT !.kept = b, !.missing = a])
  BY <1>1 DEF Work, Fits
<1> QED
  BY <1>2, <1>3, <1>4

LEMMA NamedStep == Named /\ [Next]_vars => Named'
<1> SUFFICES ASSUME Named, [Next]_vars PROVE Named'
  OBVIOUS
<1>0. Kept /\ Running /\ Counted
  BY DEF Named
<1>1. ASSUME NEW p \in Operators, Ensure(p) PROVE Named'
  <2>1. PICK g \in Guests : 
          /\ \/ disk' = [disk EXCEPT ![g] = Absent] /\ Goto(p, "keygen", Begin("provision", g))
             \/ UNCHANGED disk /\ Goto(p, "keygen", Begin("activate", g))
          /\ awake' = awake \ {g}
    BY <1>1 DEF Ensure
  <2>2. ASSUME NEW c \in {"provision", "activate"}
        PROVE  Begin(c, g) \in Work /\ Fits("keygen", Begin(c, g))
    BY <1>0, BeginTyped DEF NoLines, Fits
  <2>3. Running'
    BY <1>0, <2>1, <2>2, MoveFits DEF Labels
  <2>4. Kept'
    BY <1>0, <1>1, <2>1 DEF Kept, Ensure, broker
  <2> QED
    BY <1>0, <1>1, <2>1, <2>3, <2>4 DEF Named, Counted, Ensure
<1>2. ASSUME NEW p \in Operators, Reconcile(p) PROVE Named'
  <2> DEFINE w == [Begin("reconcile", None) EXCEPT !.again = TRUE, !.todo = record]
  <2>1. w \in Work /\ Fits("sync", w)
    <3>1. /\ Begin("reconcile", None) \in Work /\ Begin("reconcile", None).cmd = "reconcile"
          /\ Begin("reconcile", None).lines = NoLines
      BY <1>0, BeginTyped
    <3>2. \A g \in Guests : NoLines[g] = None
      BY DEF NoLines
    <3> QED
      BY <1>0, <3>1, <3>2 DEF Counted, Work, Fits
  <2> HIDE DEF w
  <2>2. Running'
    BY <1>0, <1>2, <2>1, MoveFits DEF Reconcile, Labels, w
  <2> QED
    BY <1>0, <1>2, <2>2 DEF Reconcile, Named, Kept, Counted, guests, broker
<1>3. ASSUME NEW p \in Operators, Keygen(p) PROVE Named'
  <2> DEFINE g == work[p].guest  k == [guest |-> g, serial |-> minted + 1]
             v == [work[p] EXCEPT !.todo = record]  w == [work[p] EXCEPT !.key = k]
  <2>1. /\ work[p] \in Work /\ Fits("keygen", work[p]) /\ g \in Guests
    BY <1>0, <1>3 DEF Running, Keygen, Fits
  <2>2. v \in Work /\ Fits("sync", v)
    BY <1>0, <2>1 DEF Work, Fits, Counted
  <2>3. minted < MaxKeys => k \in KeysOf(g) /\ minted + 1 \in 0 .. MaxKeys
    BY <1>0, <2>1, KeysAssumption DEF Keys, KeysOf, Counted
  <2> HIDE DEF k
  <2>4. minted < MaxKeys => w \in Work /\ Fits("keygen_pub", w)
    BY <2>1, <2>3, KeysOfTyped DEF Work, Fits
  <2>5. UNCHANGED <<guests, pub, authorized, faults>>
    BY <1>3 DEF Keygen
  <2> HIDE DEF v, w
  <2>6. CASE Goto(p, "sync", v) /\ UNCHANGED <<priv, minted>>
    BY <1>0, <2>2, <2>5, <2>6, MoveFits DEF Named, Kept, Counted, guests, Labels
  <2>7. CASE /\ minted < MaxKeys /\ minted' = minted + 1 /\ priv' = [priv EXCEPT ![g] = k]
             /\ Goto(p, "keygen_pub", w)
    <3>1. Running'
      BY <1>0, <2>4, <2>7, MoveFits DEF Labels
    <3>2. Kept'
      BY <1>0, <2>1, <2>3, <2>5, <2>7, KeysOfTyped DEF Kept, guests
    <3> QED
      BY <1>0, <2>3, <2>5, <2>7, <3>1, <3>2 DEF Named, Counted, guests
  <2>8. CASE Finish(p) /\ UNCHANGED <<priv, minted>>
    BY <1>0, <2>5, <2>8, EndFits DEF Named, Kept, Counted, guests
  <2> QED
    BY <1>3, <2>6, <2>7, <2>8 DEF Keygen, k, v, w
<1>4. ASSUME NEW p \in Operators, KeygenPub(p) PROVE Named'
  <2> DEFINE w == [work[p] EXCEPT !.todo = record, !.key = None]
  <2>1. work[p] \in Work /\ Fits("keygen_pub", work[p])
    BY <1>0, <1>4 DEF Running, KeygenPub
  <2>2. w \in Work /\ Fits("sync", w)
    BY <1>0, <2>1 DEF Work, Fits, Counted
  <2> HIDE DEF w
  <2>3. Running'
    BY <1>0, <1>4, <2>2, MoveFits DEF KeygenPub, Labels, w
  <2>4. pub' = [pub EXCEPT ![work[p].guest] = work[p].key] /\ work[p].key \in KeysOf(work[p].guest)
        /\ UNCHANGED <<guests, priv, authorized, minted, faults>>
    BY <1>4, <2>1 DEF KeygenPub, Fits
  <2>5. Kept'
    BY <1>0, <2>4, KeysOfTyped DEF Kept, guests
  <2> QED
    BY <1>0, <2>3, <2>4, <2>5 DEF Named, Counted, guests
<1>5. ASSUME NEW p \in Operators, SkipGuest(p) PROVE Named'
  <2>1. PICK g \in work[p].todo : Goto(p, "sync", [work[p] EXCEPT !.todo = @ \ {g}])
    BY <1>5 DEF SkipGuest
  <2> DEFINE w == [work[p] EXCEPT !.todo = @ \ {g}]
  <2>2. w \in Work /\ Fits("sync", w)
    BY <1>0, <1>5 DEF Running, SkipGuest, Work, Fits
  <2> HIDE DEF w
  <2>3. Goto(p, "sync", w)
    BY <2>1 DEF w
  <2> QED
    BY <1>0, <1>5, <2>2, <2>3, MoveFits DEF SkipGuest, Named, Kept, Counted, guests, broker, Labels
<1>6. ASSUME NEW p \in Operators, FetchKey(p) PROVE Named'
  <2>1. PICK g \in work[p].todo :
          /\ Answers(g) /\ priv' = [priv EXCEPT ![g] = Torn]
          /\ Goto(p, "fill_priv", [work[p] EXCEPT !.at = g, !.key = disk[g]])
    BY <1>6 DEF FetchKey
  <2> DEFINE w == [work[p] EXCEPT !.at = g, !.key = disk[g]]
  <2>2. /\ work[p] \in Work /\ Fits("sync", work[p]) /\ g \in Guests
        /\ UNCHANGED <<guests, pub, authorized, minted, faults>>
    BY <1>0, <1>6 DEF Running, FetchKey, Work
  <2>3. disk[g] \in KeysOf(g) /\ disk[g] \in Keys
    BY <1>0, <2>1, <2>2, NotKeys DEF Answers, Kept
  <2>4. w \in Work /\ Fits("fill_priv", w)
    BY <2>2, <2>3 DEF Work, Fits
  <2> HIDE DEF w
  <2>5. Running'
    BY <1>0, <2>1, <2>4, MoveFits DEF Labels, w
  <2>6. Kept'
    BY <1>0, <2>1, <2>2 DEF Kept, guests
  <2> QED
    BY <1>0, <2>2, <2>5, <2>6 DEF Named, Counted, guests
<1>30. ASSUME NEW p \in Operators, FetchFails(p) PROVE Named'
  <2>1. PICK g \in work[p].todo :
          Goto(p, "sync", [work[p] EXCEPT !.todo = @ \ {g},
                                          !.missing = IF work[p].again THEN @ ELSE @ \ {g}])
    BY <1>30 DEF FetchFails
  <2> DEFINE t == work[p].todo \ {g}
             m == IF work[p].again THEN work[p].missing ELSE work[p].missing \ {g}
             w == [work[p] EXCEPT !.todo = t, !.missing = m]
  <2>2. /\ work[p] \in Work /\ Fits("sync", work[p])
        /\ t \in SUBSET Guests /\ m \in SUBSET Guests
    BY <1>0, <1>30 DEF Running, FetchFails, Work
  <2>3. Goto(p, "sync", w)
    BY <2>1, <2>2 DEF Work
  <2> HIDE DEF t, m
  <2>4. w \in Work /\ Fits("sync", w)
    BY <2>2 DEF Work, Fits
  <2> HIDE DEF w
  <2> QED
    BY <1>0, <1>30, <2>3, <2>4, MoveFits DEF FetchFails, Named, Kept, Counted, guests, broker, Labels
<1>7. ASSUME NEW p \in Operators, FetchHangs(p) PROVE Named'
  BY <1>0, <1>7, EndFits, FaultCounted DEF FetchHangs, Named, Kept, Counted, guests, broker,
     FaultKinds
<1>8. ASSUME NEW p \in Operators, FillPriv(p) PROVE Named'
  <2>1. /\ work[p] \in Work /\ work[p].at \in Guests /\ work[p].key \in KeysOf(work[p].at)
        /\ Fits("derive", work[p]) /\ UNCHANGED <<guests, pub, authorized, minted, faults>>
        /\ priv' = [priv EXCEPT ![work[p].at] = work[p].key] /\ Goto(p, "derive", work[p])
    BY <1>0, <1>8 DEF Running, FillPriv, Fits
  <2>2. Running'
    BY <1>0, <2>1, MoveFits DEF Labels
  <2>3. Kept'
    BY <1>0, <2>1, KeysOfTyped DEF Kept, guests
  <2> QED
    BY <1>0, <2>1, <2>2, <2>3 DEF Named, Counted, guests
<1>9. ASSUME NEW p \in Operators, Derive(p) PROVE Named'
  <2> DEFINE g == work[p].at  w == [work[p] EXCEPT !.key = priv[g]]
  <2>1. /\ work[p] \in Work /\ g \in Guests /\ Fits("derive", work[p])
        /\ UNCHANGED <<guests, priv, authorized, minted, faults>>
    BY <1>0, <1>9 DEF Running, Derive, Fits
  <2>2. priv[g] \in Keys => priv[g] \in KeysOf(g)
    BY <1>0, <2>1, NotKeys DEF Kept
  <2>3. priv[g] \in Keys => w \in Work /\ Fits("fill_pub", w)
    BY <2>1, <2>2 DEF Work, Fits
  <2> HIDE DEF w
  <2>4. CASE priv[g] \in Keys /\ pub' = [pub EXCEPT ![g] = Torn] /\ Goto(p, "fill_pub", w)
    <3>1. Running'
      BY <1>0, <2>3, <2>4, MoveFits DEF Labels
    <3>2. Kept'
      BY <1>0, <2>1, <2>4 DEF Kept, guests
    <3> QED
      BY <1>0, <2>1, <3>1, <3>2 DEF Named, Counted, guests
  <2>5. CASE Finish(p) /\ UNCHANGED pub
    BY <1>0, <2>1, <2>5, EndFits DEF Named, Kept, Counted, guests
  <2> QED
    BY <1>9, <2>4, <2>5 DEF Derive, w
<1>10. ASSUME NEW p \in Operators, FillPub(p) PROVE Named'
  <2> DEFINE g == work[p].at  w == [work[p] EXCEPT !.todo = @ \ {g}, !.at = None, !.key = None]
  <2>1. /\ work[p] \in Work /\ g \in Guests /\ work[p].key \in KeysOf(g)
        /\ Fits("fill_pub", work[p]) /\ UNCHANGED <<guests, priv, authorized, minted, faults>>
        /\ pub' = [pub EXCEPT ![g] = work[p].key]
    BY <1>0, <1>10 DEF Running, FillPub, Fits
  <2>2. w \in Work /\ Fits("sync", w)
    BY <2>1 DEF Work, Fits
  <2> HIDE DEF w
  <2>3. Running'
    BY <1>0, <1>10, <2>2, MoveFits DEF FillPub, Labels, w
  <2>4. Kept'
    BY <1>0, <2>1, KeysOfTyped DEF Kept, guests
  <2> QED
    BY <1>0, <2>1, <2>3, <2>4 DEF Named, Counted, guests
<1>11. ASSUME NEW p \in Operators, Synced(p) PROVE Named'
  <2> DEFINE w == [work[p] EXCEPT !.again = FALSE, !.todo = record]
  <2>1. /\ work[p] \in Work /\ Fits("sync", work[p]) /\ Fits("orphans", work[p])
    BY <1>0, <1>11 DEF Running, Synced, Fits
  <2>2. w \in Work /\ Fits("sync", w)
    BY <1>0, <2>1 DEF Work, Fits, Counted
  <2> HIDE DEF w
  <2>3. Goto(p, "sync", w) \/ Goto(p, "orphans", work[p])
    BY <1>11 DEF Synced, w
  <2>4. Running'
    BY <1>0, <2>1, <2>2, <2>3, MoveFits DEF Labels
  <2> QED
    BY <1>0, <1>11, <2>4 DEF Synced, Named, Kept, Counted, guests, broker
<1>12. ASSUME NEW p \in Operators, Orphans(p) PROVE Named'
  <2> DEFINE w == [work[p] EXCEPT !.todo = {g \in Guests : priv[g] # Absent} \ Valid(p)]
  <2>1. w \in Work /\ Fits("prune", w)
    BY <1>0, <1>12 DEF Running, Orphans, Work, Fits
  <2> HIDE DEF w
  <2>2. Running'
    BY <1>0, <1>12, <2>1, MoveFits DEF Orphans, Labels, w
  <2> QED
    BY <1>0, <1>12, <2>2 DEF Orphans, Named, Kept, Counted, guests, broker
<1>13. ASSUME NEW p \in Operators, Prune(p) PROVE Named'
  <2>1. PICK g \in work[p].todo :
          /\ priv' = [priv EXCEPT ![g] = Absent]
          /\ Goto(p, "prune_pub", [work[p] EXCEPT !.at = g])
    BY <1>13 DEF Prune
  <2> DEFINE w == [work[p] EXCEPT !.at = g]
  <2>2. w \in Work /\ Fits("prune_pub", w) /\ UNCHANGED <<guests, pub, authorized, minted, faults>>
    BY <1>0, <1>13 DEF Running, Prune, Work, Fits
  <2> HIDE DEF w
  <2>3. Running'
    BY <1>0, <2>1, <2>2, MoveFits DEF Labels, w
  <2>4. Kept'
    BY <1>0, <2>1, <2>2 DEF Kept, guests
  <2> QED
    BY <1>0, <2>2, <2>3, <2>4 DEF Named, Counted, guests
<1>14. ASSUME NEW p \in Operators, PrunePub(p) PROVE Named'
  <2> DEFINE g == work[p].at  w == [work[p] EXCEPT !.todo = @ \ {g}, !.at = None]
  <2>0. work[p] \in Work /\ Fits("prune_pub", work[p]) /\ UNCHANGED <<guests, priv, authorized, minted, faults>>
    BY <1>0, <1>14 DEF Running, PrunePub
  <2>1. w \in Work /\ Fits("prune", w)
    BY <2>0 DEF Work, Fits
  <2>2. pub' = [pub EXCEPT ![g] = Absent]
    BY <1>14 DEF PrunePub
  <2> HIDE DEF w
  <2>3. Running'
    BY <1>0, <1>14, <2>1, MoveFits DEF PrunePub, Labels, w
  <2>4. Kept'
    BY <1>0, <2>0, <2>2 DEF Kept, guests
  <2> QED
    BY <1>0, <2>0, <2>3, <2>4 DEF Named, Counted, guests
<1>15. ASSUME NEW p \in Operators, Collect(p) PROVE Named'
  <2> DEFINE w == [work[p] EXCEPT !.lines = Lines]
  <2>1. w \in Work /\ Fits("fill", w)
    BY <1>0, <1>15, LinesNamed DEF Running, Collect, Work, Fits
  <2> HIDE DEF w
  <2>2. Running'
    BY <1>0, <1>15, <2>1, MoveFits DEF Collect, Labels, w
  <2>3. NoLines \in LineSet /\ \A g \in Guests : NoLines[g] = None
    BY DEF NoLines, LineSet
  <2>4. authorized' = NoLines /\ UNCHANGED <<guests, priv, pub, minted, faults>>
    BY <1>15 DEF Collect
  <2> QED
    BY <1>0, <2>2, <2>3, <2>4 DEF Named, Kept, Counted, guests
<1>16. ASSUME NEW p \in Operators, Fill(p) PROVE Named'
  <2>1. /\ work[p] \in Work /\ authorized' = work[p].lines /\ work[p].lines \in LineSet
        /\ \A g \in Guests : work[p].lines[g] \in KeysOf(g) \cup {None}
        /\ UNCHANGED <<guests, priv, pub, minted, faults>>
    BY <1>0, <1>16 DEF Running, Fill, Fits, Work
  <2>2. work[p].cmd # "reconcile" => Fits("install", work[p])
    BY <1>0, <1>16 DEF Running, Fill, Fits
  <2>3. Running'
    BY <1>0, <1>16, <2>1, <2>2, MoveFits, EndFits DEF Fill, Labels
  <2> QED
    BY <1>0, <2>1, <2>3 DEF Named, Kept, Counted, guests
<1>17. ASSUME NEW p \in Operators, Install(p) PROVE Named'
  <2> DEFINE g == work[p].guest
  <2>1. /\ work[p] \in Work /\ g \in Guests /\ Fits("save", work[p])
        /\ UNCHANGED <<record, awake, saved, broker, minted, faults>>
    BY <1>0, <1>17 DEF Running, Install, Fits
  <2>2. Running'
    BY <1>0, <1>17, <2>1, MoveFits, EndFits DEF Install, Labels
  <2>3. \/ UNCHANGED disk
        \/ /\ priv[g] # Absent
           /\ disk' = [disk EXCEPT ![g] = IF priv[g] = Torn THEN Absent ELSE priv[g]]
    BY <1>17 DEF Install
  <2>4. Kept'
    BY <1>0, <2>1, <2>3, KeysOfTyped DEF Kept, broker
  <2> QED
    BY <1>0, <2>1, <2>2, <2>4 DEF Named, Counted
<1>18. ASSUME NEW p \in Operators, Save(p) PROVE Named'
  <2> DEFINE g == work[p].guest
  <2>1. g \in Guests /\ saved' = [saved EXCEPT ![g] = {disk[g]}] /\ record' = record \cup {g}
        /\ UNCHANGED <<awake, disk, broker, minted, faults>>
    BY <1>0, <1>18 DEF Running, Save, Fits
  <2>2. Running'
    BY <1>0, <1>18, EndFits DEF Save
  <2>3. Kept'
    BY <1>0, <2>1 DEF Kept, broker
  <2> QED
    BY <1>0, <2>1, <2>2, <2>3 DEF Named, Counted
<1>19. ASSUME NEW p \in Operators, CutShort(p) PROVE Named'
  BY <1>0, <1>19, EndFits, FaultCounted DEF CutShort, Named, Kept, Counted, guests, broker, FaultKinds
<1>20. ASSUME NEW g \in Guests, StartGuest(g) PROVE Named'
  BY <1>0, <1>20 DEF StartGuest, Named, Kept, Running, Counted, broker
<1>21. ASSUME NEW g \in Guests, StopGuest(g) PROVE Named'
  <2>1. Running'
    BY <1>0, <1>21, NotesFit DEF StopGuest, Running
  <2> QED
    BY <1>0, <1>21, <2>1 DEF StopGuest, Named, Kept, Counted, broker
<1>22. ASSUME NEW g \in Guests, Snapshot(g) PROVE Named'
  BY <1>0, <1>22 DEF Snapshot, Named, Kept, Running, Counted, broker
<1>23. ASSUME NEW g \in Guests, Forget(g), UNCHANGED pc PROVE Running'
  BY <1>0, <1>23, NotesFit DEF Forget, Running
<1>24. ASSUME NEW g \in Guests, RestoreGuest(g) PROVE Named'
  BY <1>0, <1>23, <1>24 DEF RestoreGuest, Named, Kept, Counted, broker
<1>25. ASSUME NEW g \in Guests, RemoveGuest(g) PROVE Named'
  BY <1>0, <1>23, <1>25 DEF RemoveGuest, Named, Kept, Counted, broker
<1>26. CASE LoseBroker
  BY <1>0, <1>26, FaultCounted DEF LoseBroker, Named, Kept, Running, Counted, NoLines, LineSet,
     guests, FaultKinds
<1>27. CASE UNCHANGED vars
  BY <1>0, <1>27 DEF vars, guests, broker, Named, Kept, Running, Counted
<1>28. ASSUME NEW p \in Operators, Step(p) PROVE Named'
  BY <1>28, <1>1, <1>2, <1>3, <1>4, <1>5, <1>6, <1>7, <1>8, <1>9, <1>10, <1>11, <1>12, <1>13,
     <1>14, <1>15, <1>16, <1>17, <1>18, <1>19, <1>30 DEF Step
<1>29. ASSUME NEW g \in Guests, Around(g) PROVE Named'
  BY <1>29, <1>20, <1>21, <1>22, <1>24, <1>25 DEF Around
<1> QED
  BY <1>26, <1>27, <1>28, <1>29 DEF Next

THEOREM AlwaysNamed == Spec => []Named
  BY InitNamed, NamedStep, PTL DEF Spec

\* The pairs, the guests' disks and what commands hold keep their types.
THEOREM TypeCorrect == Spec => []TypeOK
<1>1. Named => TypeOK
  BY NamedImplies
<1> QED
  BY <1>1, AlwaysNamed, PTL

\* A line of authorized_keys never lets one guest in under another's name,
\* however refreshes of the file overlap.
THEOREM KeyIsSafe == Spec => []KeyNamesItsGuest
<1>1. Named => KeyNamesItsGuest
  BY NamedImplies
<1> QED
  BY <1>1, AlwaysNamed, PTL

-----------------------------------------------------------------------------
(***************************************************************************)
(* One command at a time, p's.  Nobody else writes the pairs between two   *)
(* of its steps, so they are whole but for the pair that is being written  *)
(* and what one command that was cut short left.                           *)
(***************************************************************************)
Fetching == {"fill_priv", "derive", "fill_pub"}

\* p is writing the pair of g.
Writing(p, g) ==
  \/ pc[p] = "keygen_pub" /\ work[p].guest = g
  \/ pc[p] \in Fetching /\ work[p].at = g

Matches(g) == priv[g] = pub[g] /\ priv[g] \in Keys

\* The pair of g before and after a command is cut short.
PairOf(p, g) ==
  /\ faults["cut"] = 0 =>
       \/ Writing(p, g) /\ (pub[g] = Absent \/ pc[p] = "fill_pub")
       \/ ~Writing(p, g) /\ pc[p] = "prune_pub" /\ work[p].at = g
       \/ ~Writing(p, g) /\ (Matches(g) \/ (priv[g] = Absent /\ pub[g] = Absent))
  /\ faults["cut"] = 1 => Writing(p, g) \/ ~HasPair(g) \/ Matches(g) \/ pub[g] = Torn

\* What p has written of the pair it writes.
Written(p) ==
  LET w == work[p] IN
  /\ pc[p] = "keygen_pub" => priv[w.guest] = w.key
  /\ pc[p] \in {"derive", "fill_pub"} => priv[w.at] = w.key /\ w.key \in Keys
  /\ pc[p] = "fill_pub" => pub[w.at] = Torn
  /\ pc[p] = "prune_pub" => priv[w.at] = Absent

\* p passes over g when it prunes, and writes another pair.
Spares(p, g) ==
  /\ pc[p] \in {"prune", "prune_pub"} => g \notin work[p].todo
  /\ pc[p] \in Fetching \cup {"prune_pub"} => work[p].at # g

\* The guest that p provisions or activates.
Served(p) ==
  /\ /\ work[p].cmd # "reconcile"
     /\ pc[p] \notin {"idle", "keygen", "keygen_pub"}
     => HasPair(work[p].guest) /\ Spares(p, work[p].guest)
  /\ pc[p] = "fill" => work[p].lines = Lines
  /\ pc[p] = "install" => authorized = Lines

\* The guests that were connected when p began.
KeptOf(p) ==
  \A g \in work[p].kept :
    /\ g \in record /\ disk[g] \in Keys /\ priv[g] = disk[g] /\ pub[g] = disk[g]
    /\ (IF pc[p] = "fill" THEN work[p].lines ELSE authorized)[g] = disk[g]
    /\ pc[p] = "keygen_pub" => work[p].guest # g
    /\ Spares(p, g)

\* The guests that ran without a pair when p began.
Heals(p) ==
  work[p].cmd = "reconcile" =>
    \A g \in work[p].missing :
      /\ g \in record /\ g \in awake
      /\ disk[g] \in Keys =>
           \/ priv[g] = disk[g] /\ pub[g] = disk[g] /\ Spares(p, g)
           \/ /\ pc[p] \in {"sync"} \cup Fetching /\ (g \in work[p].todo \/ work[p].again)
              /\ IF Writing(p, g) THEN work[p].key = disk[g] ELSE ~HasPair(g)

Alone(p) ==
  /\ \A g \in Guests : PairOf(p, g)
  /\ Written(p) /\ Served(p) /\ KeptOf(p) /\ Heals(p)

LEMMA MovesTo ==
  ASSUME Named, NEW p \in Operators, NEW l, NEW w, Goto(p, l, w)
  PROVE  pc'[p] = l /\ work'[p] = w
BY DEF Named, Running, Goto

\* A command that is over writes and remembers nothing.
LEMMA EndAlone ==
  ASSUME Named, NEW p \in Operators, Finish(p),
         \A g \in Guests :
           /\ faults'["cut"] = 0 => Matches(g)' \/ (priv'[g] = Absent /\ pub'[g] = Absent)
           /\ faults'["cut"] = 1 => ~HasPair(g)' \/ Matches(g)' \/ pub'[g] = Torn
  PROVE  Alone(p)'
<1>1. pc'[p] = "idle" /\ work'[p] = NoWork
  BY MovesTo DEF Finish
<1>2. NoWork.kept = {} /\ NoWork.missing = {}
  BY DEF NoWork
<1>3. \A g \in Guests : PairOf(p, g)'
  BY <1>1 DEF PairOf, Writing, Fetching
<1>4. Written(p)' /\ Served(p)'
  BY <1>1 DEF Written, Served
<1>5. KeptOf(p)' /\ Heals(p)'
  BY <1>1, <1>2 DEF KeptOf, Heals
<1> QED
  BY <1>3, <1>4, <1>5 DEF Alone

\* What holds of all pairs while none is being written.
LEMMA AtRest ==
  ASSUME Named, NEW p \in Operators, Alone(p), pc[p] \notin {"keygen_pub", "prune_pub"} \cup Fetching,
         NEW g \in Guests
  PROVE  /\ faults["cut"] = 0 => Matches(g) \/ (priv[g] = Absent /\ pub[g] = Absent)
         /\ faults["cut"] = 1 => ~HasPair(g) \/ Matches(g) \/ pub[g] = Torn
         /\ ~Writing(p, g)
BY DEF Alone, PairOf, Writing, Fetching

\* A command that ends without a write.
LEMMA LeaveAlone ==
  ASSUME Named, NEW p \in Operators, Alone(p), Finish(p), UNCHANGED <<priv, pub>>,
         faults'["cut"] = faults["cut"],
         pc[p] \notin {"keygen_pub", "prune_pub"} \cup Fetching
  PROVE  Alone(p)'
BY EndAlone, AtRest DEF Matches, HasPair

\* A step from one moment of rest to another at which the pairs are the same.
LEMMA RestAlone ==
  ASSUME Named, NEW p \in Operators, Alone(p), UNCHANGED <<priv, pub, faults>>,
         {pc[p], pc'[p]} \cap ({"keygen_pub", "prune_pub"} \cup Fetching) = {}
  PROVE  (\A g \in Guests : PairOf(p, g)') /\ Written(p)'
<1>1. \A g \in Guests : PairOf(p, g)'
  BY AtRest DEF PairOf, Writing, Fetching, Matches, HasPair
<1>2. Written(p)'
  BY DEF Written, Fetching
<1> QED
  BY <1>1, <1>2

LEMMA BeginsAlone ==
  ASSUME Named, NEW p \in Operators, Alone(p), Ensure(p) \/ Reconcile(p)
  PROVE  Alone(p)'
<1>0. /\ pc[p] = "idle" /\ UNCHANGED <<record, saved, broker, minted, faults>>
      /\ Kept /\ Running /\ Counted
  BY DEF Ensure, Reconcile, guests, Named
<1>1. ASSUME NEW c \in {"provision", "activate", "reconcile"}, NEW g \in Guests \cup {None}
      PROVE  /\ Begin(c, g).cmd = c /\ Begin(c, g).kept = {h \in record : Connected(h)}
             /\ Begin(c, g).missing = {h \in record \cap awake : ~HasPair(h)}
             /\ Begin(c, g) \in Work
  BY <1>0, BeginTyped DEF Begin, NoWork
<1>2. CASE Ensure(p)
  <2>1. PICK g \in Guests :
          \/ /\ g \notin record /\ Goto(p, "keygen", Begin("provision", g))
             /\ disk' = [disk EXCEPT ![g] = Absent]
          \/ /\ g \in record /\ Goto(p, "keygen", Begin("activate", g))
             /\ UNCHANGED disk
    BY <1>2 DEF Ensure
  <2>2. PICK c \in {"provision", "activate"} : Goto(p, "keygen", Begin(c, g))
    BY <2>1
  <2>3. pc'[p] = "keygen" /\ work'[p] = Begin(c, g)
    BY <2>2, MovesTo
  <2>4. (\A h \in Guests : PairOf(p, h)') /\ Written(p)'
    BY <1>0, <2>3, RestAlone DEF broker, Fetching
  <2>5. \A h \in record : disk'[h] = disk[h]
    BY <1>0, <2>1 DEF Kept, Counted
  <2>6. KeptOf(p)'
    BY <1>0, <1>1, <2>3, <2>5 DEF KeptOf, Connected, Spares, Fetching, broker
  <2>7. Served(p)' /\ Heals(p)'
    BY <1>1, <2>3 DEF Served, Heals
  <2> QED
    BY <2>4, <2>6, <2>7 DEF Alone
<1>3. CASE Reconcile(p)
  <2> DEFINE b == Begin("reconcile", None)
             w == [b EXCEPT !.again = TRUE, !.todo = record]
  <2>1. /\ w.cmd = "reconcile" /\ w.kept = {h \in record : Connected(h)} /\ w.todo = record
        /\ w.missing = {h \in record \cap awake : ~HasPair(h)}
    <3>1. b \in Work /\ b.cmd = "reconcile" /\ b.kept = {h \in record : Connected(h)}
          /\ b.missing = {h \in record \cap awake : ~HasPair(h)}
      BY <1>1
    <3> HIDE DEF b
    <3> QED
      BY <3>1 DEF Work
  <2> HIDE DEF w
  <2>2. pc'[p] = "sync" /\ work'[p] = w /\ UNCHANGED <<disk, awake>>
    BY <1>3, MovesTo DEF Reconcile, w, guests
  <2>4. (\A h \in Guests : PairOf(p, h)') /\ Written(p)'
    BY <1>0, <2>2, RestAlone DEF broker, Fetching
  <2>5. KeptOf(p)'
    BY <1>0, <2>1, <2>2 DEF KeptOf, Connected, Spares, Fetching, broker
  <2>6. Served(p)'
    BY <2>1, <2>2 DEF Served
  <2>7. Heals(p)'
    BY <1>0, <2>1, <2>2 DEF Heals, Writing, Fetching, HasPair, broker
  <2> QED
    BY <2>4, <2>5, <2>6, <2>7 DEF Alone
<1> QED
  BY <1>2, <1>3

LEMMA KeygenAlone ==
  ASSUME Named, NEW p \in Operators, Alone(p), Keygen(p)
  PROVE  Alone(p)'
<1> DEFINE g == work[p].guest  k == [guest |-> g, serial |-> minted + 1]
           v == [work[p] EXCEPT !.todo = record]  w == [work[p] EXCEPT !.key = k]
<1>0. /\ pc[p] = "keygen" /\ work[p] \in Work /\ g \in Guests /\ work[p].cmd # "reconcile"
      /\ UNCHANGED <<guests, pub, authorized, faults>>
  BY DEF Named, Running, Fits, Keygen
<1>1. /\ v.cmd = work[p].cmd /\ v.guest = g /\ v.kept = work[p].kept
      /\ w.cmd = work[p].cmd /\ w.guest = g /\ w.kept = work[p].kept /\ w.key = k
  BY <1>0 DEF Work
<1> HIDE DEF v, w, k
<1>2. CASE ~NeedsKey(g) /\ Goto(p, "sync", v) /\ UNCHANGED priv
  <2>1. pc'[p] = "sync" /\ work'[p] = v
    BY <1>2, MovesTo
  <2>2. (\A h \in Guests : PairOf(p, h)') /\ Written(p)'
    BY <1>0, <1>2, <2>1, RestAlone DEF Fetching
  <2>3. Served(p)'
    BY <1>0, <1>1, <1>2, <2>1 DEF Served, Spares, NeedsKey, HasPair, Fetching
  <2>4. KeptOf(p)'
    BY <1>0, <1>1, <1>2, <2>1 DEF Alone, KeptOf, Spares, Fetching, guests
  <2>5. Heals(p)'
    BY <1>0, <1>1, <2>1 DEF Heals
  <2> QED
    BY <2>2, <2>3, <2>4, <2>5 DEF Alone
<1>3. CASE NeedsKey(g) /\ priv' = [priv EXCEPT ![g] = k] /\ Goto(p, "keygen_pub", w)
  <2>1. pc'[p] = "keygen_pub" /\ work'[p] = w
    BY <1>3, MovesTo
  <2>2. \A h \in Guests : priv'[h] = IF h = g THEN k ELSE priv[h]
    BY <1>0, <1>3 DEF Named, Kept
  <2>3. \A h \in Guests : PairOf(p, h)'
    <3> SUFFICES ASSUME NEW h \in Guests PROVE PairOf(p, h)'
      OBVIOUS
    <3>1. CASE h # g
      BY <1>0, <1>1, <2>1, <2>2, <3>1, AtRest DEF PairOf, Writing, Fetching, Matches, HasPair
    <3>2. CASE h = g
      <4>1. faults["cut"] = 0 => pub[g] = Absent
        BY <1>0, <1>3, AtRest, NotKeys DEF Matches, NeedsKey, HasPair, Fetching
      <4> QED
        BY <1>0, <1>1, <2>1, <3>2, <4>1 DEF PairOf, Writing
    <3> QED
      BY <3>1, <3>2
  <2>4. Written(p)' /\ Served(p)' /\ Heals(p)'
    BY <1>0, <1>1, <2>1, <2>2 DEF Written, Served, Heals
  <2>5. g \notin work[p].kept
    BY <1>3, NotKeys DEF Alone, KeptOf, NeedsKey, HasPair
  <2>6. KeptOf(p)'
    BY <1>0, <1>1, <2>1, <2>2, <2>5 DEF Alone, KeptOf, Spares, Fetching, guests, Work
  <2> QED
    BY <2>3, <2>4, <2>6 DEF Alone
<1>4. CASE Finish(p) /\ UNCHANGED priv
  BY <1>0, <1>4, LeaveAlone DEF Fetching
<1> QED
  BY <1>2, <1>3, <1>4 DEF Keygen, v, w, k

LEMMA KeygenPubAlone ==
  ASSUME Named, NEW p \in Operators, Alone(p), KeygenPub(p)
  PROVE  Alone(p)'
<1> DEFINE g == work[p].guest  w == [work[p] EXCEPT !.todo = record, !.key = None]
<1>0. /\ pc[p] = "keygen_pub" /\ work[p] \in Work /\ g \in Guests /\ work[p].cmd # "reconcile"
      /\ work[p].key \in Keys
      /\ UNCHANGED <<guests, priv, authorized, minted, faults>>
  BY KeysOfTyped DEF Named, Running, Fits, KeygenPub
<1>1. w.cmd = work[p].cmd /\ w.guest = g /\ w.kept = work[p].kept
  BY <1>0 DEF Work
<1> HIDE DEF w
<1>2. /\ pc'[p] = "sync" /\ work'[p] = w
      /\ \A h \in Guests : pub'[h] = IF h = g THEN work[p].key ELSE pub[h]
  BY MovesTo DEF KeygenPub, w, Named, Kept
<1>3. priv[g] = work[p].key
  BY <1>0 DEF Alone, Written
<1>4. ASSUME NEW h \in Guests PROVE PairOf(p, h)'
  <2>1. CASE h = g
    BY <1>0, <1>2, <1>3, <2>1 DEF PairOf, Writing, Fetching, Matches
  <2>2. CASE h # g
    BY <1>0, <1>2, <2>2 DEF Alone, PairOf, Writing, Fetching, Matches, HasPair
  <2> QED
    BY <2>1, <2>2
<1>5. Written(p)' /\ Heals(p)'
  BY <1>0, <1>1, <1>2 DEF Written, Heals
<1>6. Served(p)'
  BY <1>0, <1>1, <1>2, <1>3, NotKeys DEF Served, Spares, HasPair, Fetching
<1>7. KeptOf(p)'
  BY <1>0, <1>1, <1>2 DEF Alone, KeptOf, Spares, Fetching, guests, Work
<1> QED
  BY <1>4, <1>5, <1>6, <1>7 DEF Alone

\* A guest that is passed over is no longer one to heal, unless a pass is left.
LEMMA PassOver ==
  ASSUME Named, NEW p \in Operators, Alone(p), pc[p] = "sync",
         UNCHANGED <<guests, broker, minted, faults>>, NEW g, NEW w, Goto(p, "sync", w),
         w.cmd = work[p].cmd, w.guest = work[p].guest, w.kept = work[p].kept,
         w.todo = work[p].todo \ {g}, w.again = work[p].again,
         w.missing \subseteq work[p].missing,
         g \in w.missing => HasPair(g) \/ ~Answers(g) \/ w.again
  PROVE  Alone(p)'
<1>0. work[p] \in Work
  BY DEF Named, Running
<1>1. pc'[p] = "sync" /\ work'[p] = w
  BY MovesTo
<1>2. (\A h \in Guests : PairOf(p, h)') /\ Written(p)'
  BY <1>1, RestAlone DEF broker, Fetching
<1>3. Served(p)' /\ KeptOf(p)'
  BY <1>1 DEF Alone, Served, KeptOf, Spares, Fetching, HasPair, guests, broker
<1>4. ASSUME w.cmd = "reconcile", NEW h \in w.missing
      PROVE  /\ h \in record /\ h \in awake
             /\ disk[h] \in Keys =>
                  \/ priv[h] = disk[h] /\ pub[h] = disk[h]
                  \/ (h \in w.todo \/ w.again) /\ ~HasPair(h)
  BY <1>4 DEF Alone, Heals, Writing, Fetching, Answers
<1>5. Heals(p)'
  BY <1>1, <1>4 DEF Heals, Spares, Writing, Fetching, HasPair, guests, broker
<1> QED
  BY <1>2, <1>3, <1>5 DEF Alone

LEMMA SkipAlone ==
  ASSUME Named, NEW p \in Operators, Alone(p), SkipGuest(p)
  PROVE  Alone(p)'
<1>0. /\ pc[p] = "sync" /\ work[p] \in Work /\ UNCHANGED <<guests, broker, minted, faults>>
  BY DEF Named, Running, SkipGuest
<1>1. PICK g \in work[p].todo :
        /\ HasPair(g) \/ ~Answers(g)
        /\ Goto(p, "sync", [work[p] EXCEPT !.todo = @ \ {g}])
  BY DEF SkipGuest
<1> DEFINE w == [work[p] EXCEPT !.todo = @ \ {g}]
<1>2. /\ w.cmd = work[p].cmd /\ w.guest = work[p].guest /\ w.kept = work[p].kept
      /\ w.missing = work[p].missing /\ w.todo = work[p].todo \ {g} /\ w.again = work[p].again
  BY <1>0 DEF Work
<1>3. Goto(p, "sync", w)
  BY <1>1
<1> HIDE DEF w
<1> QED
  BY <1>0, <1>1, <1>2, <1>3, PassOver

LEMMA FailAlone ==
  ASSUME Named, NEW p \in Operators, Alone(p), FetchFails(p)
  PROVE  Alone(p)'
<1>0. /\ pc[p] = "sync" /\ work[p] \in Work /\ UNCHANGED <<guests, broker, minted, faults>>
  BY DEF Named, Running, FetchFails
<1>1. PICK g \in work[p].todo :
        Goto(p, "sync", [work[p] EXCEPT !.todo = @ \ {g},
                                        !.missing = IF work[p].again THEN @ ELSE @ \ {g}])
  BY DEF FetchFails
<1> DEFINE w == [work[p] EXCEPT !.todo = @ \ {g},
                                !.missing = IF work[p].again THEN @ ELSE @ \ {g}]
<1>2. /\ w.cmd = work[p].cmd /\ w.guest = work[p].guest /\ w.kept = work[p].kept
      /\ w.todo = work[p].todo \ {g} /\ w.again = work[p].again
      /\ w.missing \subseteq work[p].missing /\ (g \in w.missing => w.again)
  BY <1>0 DEF Work
<1>3. Goto(p, "sync", w)
  BY <1>1
<1> HIDE DEF w
<1> QED
  BY <1>0, <1>2, <1>3, PassOver

LEMMA FetchAlone ==
  ASSUME Named, NEW p \in Operators, Alone(p), FetchKey(p)
  PROVE  Alone(p)'
<1>0. /\ pc[p] = "sync" /\ work[p] \in Work /\ UNCHANGED <<guests, pub, authorized, minted, faults>>
  BY DEF Named, Running, FetchKey
<1>1. PICK g \in work[p].todo :
        /\ ~HasPair(g) /\ Answers(g) /\ priv' = [priv EXCEPT ![g] = Torn]
        /\ Goto(p, "fill_priv", [work[p] EXCEPT !.at = g, !.key = disk[g]])
  BY DEF FetchKey
<1> DEFINE w == [work[p] EXCEPT !.at = g, !.key = disk[g]]
<1>2. /\ w.cmd = work[p].cmd /\ w.guest = work[p].guest /\ w.kept = work[p].kept
      /\ w.missing = work[p].missing /\ w.todo = work[p].todo /\ w.again = work[p].again
      /\ w.at = g /\ w.key = disk[g]
      /\ g \in Guests
  BY <1>0 DEF Work
<1> HIDE DEF w
<1>3. /\ pc'[p] = "fill_priv" /\ work'[p] = w
      /\ \A h \in Guests : priv'[h] = IF h = g THEN Torn ELSE priv[h]
  BY <1>1, <1>2, MovesTo DEF w, Named, Kept
<1>4. ASSUME NEW h \in Guests PROVE PairOf(p, h)'
  <2>1. CASE h = g
    <3>1. faults["cut"] = 0 => pub[g] = Absent
      BY <1>0, <1>1, <1>2, AtRest, NotKeys DEF Matches, HasPair, Fetching
    <3> QED
      BY <1>0, <1>2, <1>3, <2>1, <3>1 DEF PairOf, Writing, Fetching
  <2>2. CASE h # g
    BY <1>0, <1>2, <1>3, <2>2, AtRest DEF PairOf, Writing, Fetching, Matches, HasPair
  <2> QED
    BY <2>1, <2>2
<1>5. Written(p)'
  BY <1>3 DEF Written
<1>6. Served(p)'
  <2>1. work[p].cmd # "reconcile" => work[p].guest # g /\ work[p].guest \in Guests
    BY <1>0, <1>1 DEF Alone, Served, Named, Running, Fits
  <2> QED
    BY <1>0, <1>2, <1>3, <2>1 DEF Alone, Served, Spares, HasPair
<1>7. g \notin work[p].kept
  BY <1>1, NotKeys DEF Alone, KeptOf, HasPair
<1>8. KeptOf(p)'
  BY <1>0, <1>2, <1>3, <1>7 DEF Alone, KeptOf, Spares, guests, Work
<1>9. Heals(p)'
  <2> SUFFICES ASSUME w.cmd = "reconcile", NEW h \in w.missing
               PROVE  /\ h \in record /\ h \in awake
                      /\ disk[h] \in Keys =>
                           \/ priv'[h] = disk[h] /\ pub[h] = disk[h] /\ h # g
                           \/ /\ h \in w.todo \/ w.again
                              /\ IF h = g THEN TRUE ELSE ~HasPair(h)'
    BY <1>0, <1>2, <1>3 DEF Heals, Spares, Writing, Fetching, guests
  <2>1. /\ h \in Guests /\ h \in record /\ h \in awake
        /\ disk[h] \in Keys => \/ priv[h] = disk[h] /\ pub[h] = disk[h]
                               \/ (h \in w.todo \/ w.again) /\ ~HasPair(h)
    BY <1>0, <1>2 DEF Alone, Heals, Writing, Fetching, Work
  <2>2. CASE h = g
    BY <1>1, <2>1, <2>2, NotKeys DEF HasPair
  <2>3. CASE h # g
    BY <1>0, <1>3, <2>1, <2>3 DEF HasPair
  <2> QED
    BY <2>2, <2>3
<1> QED
  BY <1>4, <1>5, <1>6, <1>8, <1>9 DEF Alone

\* The three steps of a fetch that follow, of which none touches another pair.
LEMMA FillPrivAlone ==
  ASSUME Named, NEW p \in Operators, Alone(p), FillPriv(p)
  PROVE  Alone(p)'
<1>0. /\ pc[p] = "fill_priv" /\ work[p] \in Work /\ work[p].at \in Guests /\ work[p].key \in Keys
      /\ UNCHANGED <<guests, pub, authorized, minted, faults>>
  BY KeysOfTyped DEF Named, Running, Fits, FillPriv
<1>1. PICK g \in Guests : g = work[p].at
  BY <1>0
<1>2. /\ pc'[p] = "derive" /\ work'[p] = work[p]
      /\ \A h \in Guests : priv'[h] = IF h = g THEN work[p].key ELSE priv[h]
  BY <1>1, MovesTo DEF FillPriv, Named, Kept
<1>4. ASSUME NEW h \in Guests PROVE PairOf(p, h)'
  BY <1>0, <1>1, <1>2 DEF Alone, PairOf, Writing, Fetching, Matches, HasPair
<1>5. Written(p)'
  BY <1>0, <1>1, <1>2 DEF Written
<1>6. Served(p)'
  BY <1>0, <1>1, <1>2 DEF Alone, Served, Spares, Fetching, HasPair, Named, Running, Fits
<1>7. KeptOf(p)'
  BY <1>0, <1>1, <1>2 DEF Alone, KeptOf, Spares, Fetching, guests, Work
<1>8. Heals(p)'
  <2>1. ASSUME work[p].cmd = "reconcile", NEW h \in work[p].missing
        PROVE  /\ h \in Guests /\ h \in record /\ h \in awake
               /\ disk[h] \in Keys =>
                    \/ priv[h] = disk[h] /\ pub[h] = disk[h] /\ h # g
                    \/ /\ h \in work[p].todo \/ work[p].again
                       /\ IF h = g THEN work[p].key = disk[h] ELSE ~HasPair(h)
    BY <1>0, <1>1, <2>1 DEF Alone, Heals, Spares, Writing, Fetching, Work
  <2> QED
    BY <1>0, <1>1, <1>2, <2>1 DEF Heals, Spares, Writing, Fetching, HasPair, guests
<1> QED
  BY <1>4, <1>5, <1>6, <1>7, <1>8 DEF Alone

LEMMA DeriveAlone ==
  ASSUME Named, NEW p \in Operators, Alone(p), Derive(p)
  PROVE  Alone(p)'
<1>0. /\ pc[p] = "derive" /\ work[p] \in Work /\ work[p].at \in Guests
      /\ priv[work[p].at] = work[p].key /\ work[p].key \in Keys
      /\ UNCHANGED <<guests, priv, authorized, minted, faults>>
  BY DEF Named, Running, Fits, Derive, Alone, Written
<1>1. PICK g \in Guests : g = work[p].at
  BY <1>0
<1> DEFINE w == [work[p] EXCEPT !.key = priv[g]]
<1>2. w = work[p]
  BY <1>0, <1>1 DEF Work
<1>3. /\ pc'[p] = "fill_pub" /\ work'[p] = work[p]
      /\ \A h \in Guests : pub'[h] = IF h = g THEN Torn ELSE pub[h]
  BY <1>0, <1>1, <1>2, MovesTo DEF Derive, Named, Kept
<1>4. ASSUME NEW h \in Guests PROVE PairOf(p, h)'
  BY <1>0, <1>1, <1>3 DEF Alone, PairOf, Writing, Fetching, Matches, HasPair
<1>5. Written(p)'
  BY <1>0, <1>1, <1>3 DEF Written
<1>6. Served(p)'
  BY <1>0, <1>1, <1>3 DEF Alone, Served, Spares, Fetching, HasPair, Named, Running, Fits
<1>7. KeptOf(p)'
  BY <1>0, <1>1, <1>3 DEF Alone, KeptOf, Spares, Fetching, guests, Work
<1>8. Heals(p)'
  <2>1. ASSUME work[p].cmd = "reconcile", NEW h \in work[p].missing
        PROVE  /\ h \in Guests /\ h \in record /\ h \in awake
               /\ disk[h] \in Keys =>
                    \/ priv[h] = disk[h] /\ pub[h] = disk[h] /\ h # g
                    \/ /\ h \in work[p].todo \/ work[p].again
                       /\ IF h = g THEN work[p].key = disk[h] ELSE ~HasPair(h)
    BY <1>0, <1>1, <2>1 DEF Alone, Heals, Spares, Writing, Fetching, Work
  <2> QED
    BY <1>0, <1>1, <1>3, <2>1 DEF Heals, Spares, Writing, Fetching, HasPair, guests
<1> QED
  BY <1>4, <1>5, <1>6, <1>7, <1>8 DEF Alone

LEMMA FillPubAlone ==
  ASSUME Named, NEW p \in Operators, Alone(p), FillPub(p)
  PROVE  Alone(p)'
<1>0. /\ pc[p] = "fill_pub" /\ work[p] \in Work /\ work[p].at \in Guests
      /\ priv[work[p].at] = work[p].key /\ work[p].key \in Keys
      /\ UNCHANGED <<guests, priv, authorized, minted, faults>>
  BY DEF Named, Running, Fits, FillPub, Alone, Written
<1>1. PICK g \in Guests : g = work[p].at
  BY <1>0
<1> DEFINE w == [work[p] EXCEPT !.todo = @ \ {g}, !.at = None, !.key = None]
<1>2. /\ w.cmd = work[p].cmd /\ w.guest = work[p].guest /\ w.kept = work[p].kept
      /\ w.missing = work[p].missing /\ w.todo = work[p].todo \ {g} /\ w.again = work[p].again
  BY <1>0 DEF Work
<1> HIDE DEF w
<1>3. /\ pc'[p] = "sync" /\ work'[p] = w
      /\ \A h \in Guests : pub'[h] = IF h = g THEN work[p].key ELSE pub[h]
  BY <1>0, <1>1, MovesTo DEF FillPub, Named, Kept, w
<1>4. ASSUME NEW h \in Guests PROVE PairOf(p, h)'
  BY <1>0, <1>1, <1>3 DEF Alone, PairOf, Writing, Fetching, Matches, HasPair
<1>5. Written(p)'
  BY <1>3 DEF Written
<1>6. Served(p)'
  BY <1>0, <1>1, <1>2, <1>3 DEF Alone, Served, Spares, Fetching, HasPair, Named, Running, Fits
<1>7. KeptOf(p)'
  BY <1>0, <1>1, <1>2, <1>3 DEF Alone, KeptOf, Spares, Fetching, guests, Work
<1>8. Heals(p)'
  <2>1. ASSUME work[p].cmd = "reconcile", NEW h \in work[p].missing
        PROVE  /\ h \in Guests /\ h \in record /\ h \in awake
               /\ disk[h] \in Keys =>
                    \/ priv[h] = disk[h] /\ pub[h] = disk[h] /\ h # g
                    \/ /\ h \in work[p].todo \/ work[p].again
                       /\ IF h = g THEN work[p].key = disk[h] ELSE ~HasPair(h)
    BY <1>0, <1>1, <2>1 DEF Alone, Heals, Spares, Writing, Fetching, Work
  <2> QED
    BY <1>0, <1>1, <1>2, <1>3, <2>1 DEF Heals, Spares, Writing, Fetching, HasPair, guests
<1> QED
  BY <1>4, <1>5, <1>6, <1>7, <1>8 DEF Alone

LEMMA SyncedAlone ==
  ASSUME Named, NEW p \in Operators, Alone(p), Synced(p)
  PROVE  Alone(p)'
<1>0. /\ pc[p] = "sync" /\ work[p] \in Work /\ work[p].todo = {}
      /\ UNCHANGED <<guests, broker, minted, faults>>
  BY DEF Named, Running, Synced
<1> DEFINE w == [work[p] EXCEPT !.again = FALSE, !.todo = record]
<1>1. /\ w.cmd = work[p].cmd /\ w.guest = work[p].guest /\ w.kept = work[p].kept
      /\ w.missing = work[p].missing /\ w.todo = record
  BY <1>0 DEF Work
<1> HIDE DEF w
<1>2. PICK l \in {"sync", "orphans"}, x \in {w, work[p]} :
        /\ pc'[p] = l /\ work'[p] = x
        /\ \/ l = "sync" /\ x = w
           \/ l = "orphans" /\ x = work[p] /\ ~work[p].again
  BY MovesTo DEF Synced, w
<1>3. (\A h \in Guests : PairOf(p, h)') /\ Written(p)'
  BY <1>0, <1>2, RestAlone DEF broker, Fetching
<1>4. Served(p)' /\ KeptOf(p)'
  BY <1>0, <1>1, <1>2 DEF Alone, Served, KeptOf, Spares, Fetching, HasPair, guests, broker
<1>5. Heals(p)'
  <2>1. ASSUME work[p].cmd = "reconcile", NEW h \in work[p].missing
        PROVE  /\ h \in record /\ h \in awake
               /\ disk[h] \in Keys => \/ priv[h] = disk[h] /\ pub[h] = disk[h]
                                      \/ work[p].again /\ ~HasPair(h)
    BY <1>0, <2>1 DEF Alone, Heals, Writing, Fetching
  <2> QED
    BY <1>0, <1>1, <1>2, <2>1 DEF Heals, Spares, Writing, Fetching, HasPair, guests, broker
<1> QED
  BY <1>3, <1>4, <1>5 DEF Alone

LEMMA OrphansAlone ==
  ASSUME Named, NEW p \in Operators, Alone(p), Orphans(p)
  PROVE  Alone(p)'
<1> DEFINE w == [work[p] EXCEPT !.todo = {g \in Guests : priv[g] # Absent} \ Valid(p)]
<1>0. pc[p] = "orphans" /\ work[p] \in Work /\ UNCHANGED <<guests, broker, minted, faults>>
  BY DEF Named, Running, Orphans
<1>1. /\ w.cmd = work[p].cmd /\ w.guest = work[p].guest /\ w.kept = work[p].kept
      /\ w.missing = work[p].missing
      /\ w.guest \notin w.todo /\ \A g \in record : g \notin w.todo
  BY <1>0 DEF Work, Valid
<1> HIDE DEF w
<1>2. pc'[p] = "prune" /\ work'[p] = w
  BY MovesTo DEF Orphans, w
<1>3. (\A h \in Guests : PairOf(p, h)') /\ Written(p)'
  BY <1>0, <1>2, RestAlone DEF broker, Fetching
<1>4. Served(p)' /\ KeptOf(p)'
  BY <1>0, <1>1, <1>2 DEF Alone, Served, KeptOf, Spares, Fetching, HasPair, guests, broker
<1>5. Heals(p)'
  <2>1. ASSUME work[p].cmd = "reconcile", NEW h \in work[p].missing
        PROVE  /\ h \in record /\ h \in awake
               /\ disk[h] \in Keys => priv[h] = disk[h] /\ pub[h] = disk[h]
    BY <1>0, <2>1 DEF Alone, Heals, Fetching
  <2> QED
    BY <1>0, <1>1, <1>2, <2>1 DEF Heals, Spares, Fetching, guests, broker
<1> QED
  BY <1>3, <1>4, <1>5 DEF Alone

\* While it prunes, p has whole pairs of all that it serves, kept and healed.
LEMMA PruneAlone ==
  ASSUME Named, NEW p \in Operators, Alone(p), Prune(p)
  PROVE  Alone(p)'
<1>0. pc[p] = "prune" /\ work[p] \in Work /\ UNCHANGED <<guests, pub, authorized, minted, faults>>
  BY DEF Named, Running, Prune
<1>1. PICK g \in work[p].todo :
        /\ priv' = [priv EXCEPT ![g] = Absent]
        /\ Goto(p, "prune_pub", [work[p] EXCEPT !.at = g])
  BY DEF Prune
<1> DEFINE w == [work[p] EXCEPT !.at = g]
<1>2. /\ w.cmd = work[p].cmd /\ w.guest = work[p].guest /\ w.kept = work[p].kept
      /\ w.missing = work[p].missing /\ w.todo = work[p].todo /\ w.at = g /\ g \in Guests
  BY <1>0 DEF Work
<1> HIDE DEF w
<1>3. /\ pc'[p] = "prune_pub" /\ work'[p] = w
      /\ \A h \in Guests : priv'[h] = IF h = g THEN Absent ELSE priv[h]
  BY <1>1, <1>2, MovesTo DEF w, Named, Kept
<1>4. ASSUME NEW h \in Guests PROVE PairOf(p, h)'
  BY <1>0, <1>2, <1>3, AtRest DEF PairOf, Writing, Fetching, Matches, HasPair
<1>5. Written(p)'
  BY <1>2, <1>3 DEF Written
<1>6. Served(p)'
  BY <1>0, <1>2, <1>3 DEF Alone, Served, Spares, Fetching, HasPair, Named, Running, Fits
<1>7. KeptOf(p)'
  BY <1>0, <1>2, <1>3 DEF Alone, KeptOf, Spares, Fetching, guests, Work
<1>8. Heals(p)'
  <2>1. ASSUME work[p].cmd = "reconcile", NEW h \in work[p].missing
        PROVE  /\ h \in Guests /\ h \in record /\ h \in awake
               /\ disk[h] \in Keys => priv[h] = disk[h] /\ pub[h] = disk[h] /\ h \notin work[p].todo
    BY <1>0, <2>1 DEF Alone, Heals, Spares, Fetching, Work
  <2> QED
    BY <1>0, <1>2, <1>3, <2>1 DEF Heals, Spares, Fetching, guests
<1> QED
  BY <1>4, <1>5, <1>6, <1>7, <1>8 DEF Alone

LEMMA PrunePubAlone ==
  ASSUME Named, NEW p \in Operators, Alone(p), PrunePub(p)
  PROVE  Alone(p)'
<1>0. /\ pc[p] = "prune_pub" /\ work[p] \in Work /\ priv[work[p].at] = Absent
      /\ UNCHANGED <<guests, priv, authorized, minted, faults>>
  BY DEF Named, Running, PrunePub, Alone, Written
<1>1. PICK g : g = work[p].at
  OBVIOUS
<1> DEFINE w == [work[p] EXCEPT !.todo = @ \ {g}, !.at = None]
<1>2. /\ w.cmd = work[p].cmd /\ w.guest = work[p].guest /\ w.kept = work[p].kept
      /\ w.missing = work[p].missing /\ w.todo = work[p].todo \ {g}
  BY <1>0 DEF Work
<1> HIDE DEF w
<1>3. /\ pc'[p] = "prune" /\ work'[p] = w
      /\ \A h \in Guests : pub'[h] = IF h = g THEN Absent ELSE pub[h]
  BY <1>1, MovesTo DEF PrunePub, w, Named, Kept
<1>4. ASSUME NEW h \in Guests PROVE PairOf(p, h)'
  BY <1>0, <1>1, <1>2, <1>3 DEF Alone, PairOf, Writing, Fetching, Matches, HasPair
<1>5. Written(p)'
  BY <1>3 DEF Written
<1>6. Served(p)'
  BY <1>0, <1>1, <1>2, <1>3 DEF Alone, Served, Spares, Fetching, HasPair, Named, Running, Fits
<1>7. KeptOf(p)'
  BY <1>0, <1>1, <1>2, <1>3 DEF Alone, KeptOf, Spares, Fetching, guests, Work
<1>8. Heals(p)'
  <2>1. ASSUME work[p].cmd = "reconcile", NEW h \in work[p].missing
        PROVE  /\ h \in Guests /\ h \in record /\ h \in awake
               /\ disk[h] \in Keys =>
                    priv[h] = disk[h] /\ pub[h] = disk[h] /\ h \notin work[p].todo /\ h # g
    BY <1>0, <1>1, <2>1 DEF Alone, Heals, Spares, Fetching, Work
  <2> QED
    BY <1>0, <1>2, <1>3, <2>1 DEF Heals, Spares, Fetching, guests
<1> QED
  BY <1>4, <1>5, <1>6, <1>7, <1>8 DEF Alone

LEMMA CollectAlone ==
  ASSUME Named, NEW p \in Operators, Alone(p), Collect(p)
  PROVE  Alone(p)'
<1> DEFINE w == [work[p] EXCEPT !.lines = Lines]
<1>0. /\ pc[p] = "prune" /\ work[p] \in Work /\ UNCHANGED <<guests, priv, pub, minted, faults>>
  BY DEF Named, Running, Collect
<1>1. /\ w.cmd = work[p].cmd /\ w.guest = work[p].guest /\ w.kept = work[p].kept
      /\ w.missing = work[p].missing /\ w.lines = Lines
  BY <1>0 DEF Work
<1> HIDE DEF w
<1>2. pc'[p] = "fill" /\ work'[p] = w
  BY MovesTo DEF Collect, w
<1>3. (\A h \in Guests : PairOf(p, h)') /\ Written(p)'
  BY <1>0, <1>2, RestAlone DEF Fetching
<1>4. Served(p)'
  BY <1>0, <1>1, <1>2 DEF Alone, Served, Spares, Fetching, HasPair, Lines
<1>5. ASSUME NEW g \in Guests, disk[g] \in Keys, priv[g] = disk[g], pub[g] = disk[g]
      PROVE  Lines[g] = disk[g]
  BY <1>5, NotKeys DEF Lines
<1>6. KeptOf(p)'
  BY <1>0, <1>1, <1>2, <1>5 DEF Alone, KeptOf, Spares, Fetching, guests, Work
<1>7. Heals(p)'
  BY <1>0, <1>1, <1>2 DEF Alone, Heals, Spares, Fetching, guests
<1> QED
  BY <1>3, <1>4, <1>6, <1>7 DEF Alone

LEMMA FillAlone ==
  ASSUME Named, NEW p \in Operators, Alone(p), Fill(p)
  PROVE  Alone(p)'
<1>0. /\ pc[p] = "fill" /\ work[p] \in Work /\ UNCHANGED <<guests, priv, pub, minted, faults>>
      /\ authorized' = work[p].lines /\ work[p].lines = Lines
  BY DEF Named, Running, Fill, Alone, Served
<1>1. CASE Finish(p)
  BY <1>0, <1>1, LeaveAlone DEF Fetching
<1>2. CASE work[p].cmd # "reconcile" /\ Goto(p, "install", work[p])
  <2>1. pc'[p] = "install" /\ work'[p] = work[p]
    BY <1>2, MovesTo
  <2>2. (\A h \in Guests : PairOf(p, h)') /\ Written(p)'
    BY <1>0, <2>1, RestAlone DEF Fetching
  <2>3. Served(p)'
    BY <1>0, <2>1 DEF Alone, Served, Spares, Fetching, HasPair, Lines
  <2>4. KeptOf(p)'
    BY <1>0, <2>1 DEF Alone, KeptOf, Spares, Fetching, guests
  <2>5. Heals(p)'
    BY <1>2, <2>1 DEF Heals
  <2> QED
    BY <2>2, <2>3, <2>4, <2>5 DEF Alone
<1> QED
  BY <1>1, <1>2 DEF Fill

LEMMA InstallAlone ==
  ASSUME Named, NEW p \in Operators, Alone(p), Install(p)
  PROVE  Alone(p)'
<1> DEFINE g == work[p].guest
<1>0. /\ pc[p] = "install" /\ work[p] \in Work /\ g \in Guests /\ work[p].cmd # "reconcile"
      /\ UNCHANGED <<record, awake, saved, broker, minted, faults>>
  BY DEF Named, Running, Fits, Install
<1>1. CASE Finish(p)
  BY <1>0, <1>1, LeaveAlone DEF Fetching, broker
<1>2. CASE /\ disk' = [disk EXCEPT ![g] = IF priv[g] = Torn THEN Absent ELSE priv[g]]
           /\ Goto(p, "save", work[p])
  <2>1. pc'[p] = "save" /\ work'[p] = work[p]
    BY <1>2, MovesTo
  <2>2. (\A h \in Guests : PairOf(p, h)') /\ Written(p)'
    BY <1>0, <2>1, RestAlone DEF Fetching, broker
  <2>3. Served(p)'
    BY <1>0, <2>1 DEF Alone, Served, Spares, Fetching, HasPair, broker
  <2>4. \A h \in work[p].kept : disk'[h] = disk[h]
    BY <1>0, <1>2, NotKeys DEF Alone, KeptOf, Named, Kept, Work
  <2>5. KeptOf(p)'
    BY <1>0, <2>1, <2>4 DEF Alone, KeptOf, Spares, Fetching, broker
  <2>6. Heals(p)'
    BY <1>0, <2>1 DEF Heals
  <2> QED
    BY <2>2, <2>3, <2>5, <2>6 DEF Alone
<1> QED
  BY <1>1, <1>2 DEF Install

\* A cut breaks one pair at most, the one that is being written.
LEMMA CutAlone ==
  ASSUME Named, NEW p \in Operators, Alone(p), CutShort(p)
  PROVE  Alone(p)'
<1>0. /\ Finish(p) /\ UNCHANGED broker /\ faults'["cut"] = faults["cut"] + 1
      /\ faults["cut"] \in Nat
  BY DEF CutShort, Fault, FaultKinds, Named, Counted
<1>1. ASSUME NEW g \in Guests, faults["cut"] = 0
      PROVE  ~HasPair(g) \/ Matches(g) \/ pub[g] = Torn
  BY <1>1 DEF Alone, PairOf, Written, HasPair, Writing
<1> QED
  BY <1>0, <1>1, EndAlone DEF Matches, HasPair, broker

LEMMA StepAlone ==
  ASSUME Named, NEW p \in Operators, Alone(p), Step(p)
  PROVE  Alone(p)'
<1>1. CASE FetchHangs(p)
  <2>1. faults'["cut"] = faults["cut"]
    BY <1>1 DEF FetchHangs, Fault, FaultKinds, Named, Counted
  <2> QED
    BY <1>1, <2>1, LeaveAlone DEF FetchHangs, Fetching, broker
<1>2. CASE Save(p)
  BY <1>2, LeaveAlone DEF Save, Fetching, broker
<1> QED
  BY <1>1, <1>2, BeginsAlone, KeygenAlone, KeygenPubAlone, SkipAlone, FetchAlone, FailAlone, FillPrivAlone,
     DeriveAlone, FillPubAlone, SyncedAlone, OrphansAlone, PruneAlone, PrunePubAlone, CollectAlone,
     FillAlone, InstallAlone, CutAlone DEF Step

\* What happens around a command takes a guest from its notes at most.
LEMMA AroundForgets ==
  ASSUME Named, NEW p \in Operators, NEW g \in Guests, Around(g)
  PROVE  /\ work'[p].cmd = work[p].cmd /\ work'[p].guest = work[p].guest /\ work'[p].at = work[p].at
         /\ work'[p].todo = work[p].todo /\ work'[p].key = work[p].key
         /\ work'[p].lines = work[p].lines /\ work'[p].again = work[p].again
         /\ work'[p].kept \subseteq work[p].kept /\ work'[p].missing \subseteq work[p].missing
<1>0. work[p] \in Work
  BY DEF Named, Running
<1>1. CASE UNCHANGED work
  BY <1>1
<1>2. CASE work' = [q \in Operators |-> [work[q] EXCEPT !.missing = @ \ {g}]]
  BY <1>0, <1>2 DEF Work
<1>3. CASE Forget(g)
  BY <1>0, <1>3 DEF Forget, Work
<1> QED
  BY <1>1, <1>2, <1>3 DEF Around, StartGuest, StopGuest, Snapshot, RestoreGuest, RemoveGuest

\* A guest that is restored or removed is forgotten, one that is stopped is not
\* expected to heal.
LEMMA AroundAlone ==
  ASSUME Named, NEW p \in Operators, Alone(p), NEW g \in Guests, Around(g)
  PROVE  Alone(p)'
<1>0. /\ work[p] \in Work /\ UNCHANGED <<broker, pc, minted, faults>>
  BY DEF Named, Running, Around, StartGuest, StopGuest, Snapshot, RestoreGuest, RemoveGuest
<1>1. /\ work'[p].cmd = work[p].cmd /\ work'[p].guest = work[p].guest /\ work'[p].at = work[p].at
      /\ work'[p].todo = work[p].todo /\ work'[p].key = work[p].key
      /\ work'[p].lines = work[p].lines /\ work'[p].again = work[p].again
      /\ work'[p].kept \subseteq work[p].kept /\ work'[p].missing \subseteq work[p].missing
  BY AroundForgets
<1>2. \A h \in work'[p].kept : h \in record => h \in record' /\ disk'[h] = disk[h]
  <2>1. CASE StartGuest(g) \/ StopGuest(g) \/ Snapshot(g)
    BY <2>1 DEF StartGuest, StopGuest, Snapshot
  <2>2. CASE RestoreGuest(g) \/ RemoveGuest(g)
    <3>1. g \notin work'[p].kept /\ Forget(g)
      <4>1. Forget(g)
        BY <2>2 DEF RestoreGuest, RemoveGuest
      <4>2. work'[p].kept = work[p].kept \ {g}
        BY <1>0, <4>1 DEF Forget, Work
      <4> QED
        BY <4>1, <4>2
    <3>2. \A h \in Guests : h # g => disk'[h] = disk[h]
      BY <2>2 DEF RestoreGuest, RemoveGuest, Named, Kept
    <3>3. \A h : h # g /\ h \in record => h \in record'
      BY <2>2 DEF RestoreGuest, RemoveGuest
    <3>4. work'[p].kept \subseteq Guests
      BY <1>0, <1>1 DEF Work
    <3> QED
      BY <3>1, <3>2, <3>3, <3>4
  <2> QED
    BY <2>1, <2>2 DEF Around
<1>3. \A h \in work'[p].missing :
        h \in record /\ h \in awake => h \in record' /\ h \in awake' /\ disk'[h] = disk[h]
  <2>1. CASE StartGuest(g) \/ Snapshot(g)
    BY <2>1 DEF StartGuest, Snapshot
  <2>2. CASE StopGuest(g)
    <3>1. g \notin work'[p].missing
      BY <1>0, <2>2 DEF StopGuest, Work
    <3> QED
      BY <2>2, <3>1 DEF StopGuest
  <2>3. CASE RestoreGuest(g) \/ RemoveGuest(g)
    <3>1. g \notin awake
      BY <2>3 DEF RestoreGuest, RemoveGuest
    <3>2. \A h \in Guests : h # g => disk'[h] = disk[h]
      BY <2>3 DEF RestoreGuest, RemoveGuest, Named, Kept
    <3>3. \A h : h # g /\ h \in record => h \in record'
      BY <2>3 DEF RestoreGuest, RemoveGuest
    <3>4. work'[p].missing \subseteq Guests /\ UNCHANGED awake
      BY <1>0, <1>1, <2>3 DEF Work, RestoreGuest, RemoveGuest
    <3> QED
      BY <3>1, <3>2, <3>3, <3>4
  <2> QED
    BY <2>1, <2>2, <2>3 DEF Around
<1>4. \A h \in Guests : PairOf(p, h)'
  BY <1>0, <1>1 DEF Alone, PairOf, Writing, Matches, HasPair, broker
<1>5. Written(p)'
  BY <1>0, <1>1 DEF Alone, Written, broker
<1>6. Served(p)'
  BY <1>0, <1>1 DEF Alone, Served, Spares, HasPair, Lines, broker
<1>7. KeptOf(p)'
  BY <1>0, <1>1, <1>2 DEF Alone, KeptOf, Spares, broker
<1>8. Heals(p)'
  BY <1>0, <1>1, <1>3 DEF Alone, Heals, Spares, Writing, HasPair, broker
<1> QED
  BY <1>4, <1>5, <1>6, <1>7, <1>8 DEF Alone

\* A command that is over remembers nothing.
Resting == \A p \in Operators : pc[p] = "idle" => work[p].kept = {} /\ work[p].missing = {}

LEMMA StepRests ==
  ASSUME Named, NEW p \in Operators, Step(p)
  PROVE  \/ pc'[p] # "idle"
         \/ pc'[p] = "idle" /\ work'[p].kept = {} /\ work'[p].missing = {}
<1>1. ASSUME Finish(p)
      PROVE  pc'[p] = "idle" /\ work'[p].kept = {} /\ work'[p].missing = {}
  BY <1>1, MovesTo DEF Finish, NoWork
<1>2. ASSUME NEW l \in Labels \ {"idle"}, NEW w, Goto(p, l, w)
      PROVE  pc'[p] # "idle"
  BY <1>2, MovesTo
<1>3. CASE Ensure(p) \/ Reconcile(p) \/ Keygen(p) \/ KeygenPub(p)
  BY <1>1, <1>2, <1>3 DEF Ensure, Reconcile, Keygen, KeygenPub, Labels
<1>4. CASE \/ SkipGuest(p) \/ FetchKey(p) \/ FetchFails(p) \/ FetchHangs(p) \/ FillPriv(p)
        \/ Derive(p)
  BY <1>1, <1>2, <1>4 DEF SkipGuest, FetchKey, FetchFails, FetchHangs, FillPriv, Derive, Labels
<1>5. CASE FillPub(p) \/ Synced(p) \/ Orphans(p) \/ Prune(p) \/ PrunePub(p)
  BY <1>1, <1>2, <1>5 DEF FillPub, Synced, Orphans, Prune, PrunePub, Labels
<1>6. CASE Collect(p) \/ Fill(p) \/ Install(p) \/ Save(p) \/ CutShort(p)
  BY <1>1, <1>2, <1>6 DEF Collect, Fill, Install, Save, CutShort, Labels
<1> QED
  BY <1>3, <1>4, <1>5, <1>6 DEF Step

LEMMA LossAlone ==
  ASSUME Named, NEW p \in Operators, Alone(p), Resting, LoseBroker
  PROVE  Alone(p)'
<1>0. pc[p] = "idle" /\ UNCHANGED <<guests, pc, work>>
  BY DEF LoseBroker
<1>1. \A g \in Guests : PairOf(p, g)'
  BY <1>0 DEF LoseBroker, PairOf, Writing, Fetching, HasPair
<1>2. Written(p)' /\ Served(p)'
  BY <1>0 DEF Written, Served
<1>3. work[p].kept = {} /\ work[p].missing = {}
  BY <1>0 DEF Resting
<1> QED
  BY <1>0, <1>1, <1>2, <1>3 DEF Alone, KeptOf, Heals

LEMMA InitAlone ==
  ASSUME Init, NEW p \in Operators
  PROVE  Alone(p) /\ Resting
<1>1. pc[p] = "idle" /\ \A q \in Operators : work[q].kept = {} /\ work[q].missing = {}
  BY DEF Init, NoWork
<1>2. \A g \in Guests : PairOf(p, g)
  BY <1>1 DEF Init, PairOf, Writing, Fetching, FaultKinds
<1>3. Written(p) /\ Served(p) /\ KeptOf(p) /\ Heals(p)
  BY <1>1 DEF Written, Served, KeptOf, Heals
<1> QED
  BY <1>1, <1>2, <1>3 DEF Alone, Resting

AloneInv(p) == Named /\ Resting /\ Alone(p)

LEMMA NextAlone ==
  ASSUME NEW p, Operators = {p}, AloneInv(p), [Next]_vars
  PROVE  AloneInv(p)'
<1>0. Named'
  BY NamedStep DEF AloneInv
<1>1. CASE Step(p)
  BY <1>0, <1>1, StepAlone, StepRests DEF AloneInv, Resting
<1>2. CASE \E g \in Guests : Around(g)
  <2>1. PICK g \in Guests : Around(g)
    BY <1>2
  <2>2. Alone(p)'
    BY <2>1, AroundAlone DEF AloneInv
  <2>3. Resting'
    <3>1. UNCHANGED pc
      BY <2>1 DEF Around, StartGuest, StopGuest, Snapshot, RestoreGuest, RemoveGuest
    <3>2. \A q \in Operators : work'[q].kept \subseteq work[q].kept /\ work'[q].missing \subseteq work[q].missing
      BY <2>1, AroundForgets DEF AloneInv
    <3>3. ASSUME NEW q \in Operators, pc'[q] = "idle"
          PROVE  work'[q].kept = {} /\ work'[q].missing = {}
      BY <3>1, <3>2, <3>3 DEF AloneInv, Resting
    <3> QED
      BY <3>3 DEF Resting
  <2> QED
    BY <1>0, <2>2, <2>3 DEF AloneInv
<1>3. CASE LoseBroker
  BY <1>0, <1>3, LossAlone DEF AloneInv, Resting, LoseBroker
<1>4. CASE UNCHANGED vars
  BY <1>0, <1>4 DEF AloneInv, Resting, Alone, PairOf, Written, Served, KeptOf, Heals, Spares,
     Writing, Matches, HasPair, Lines, vars, guests, broker
<1> QED
  BY <1>1, <1>2, <1>3, <1>4 DEF Next, AloneInv

LEMMA AlwaysAlone ==
  ASSUME NEW op, Operators = {op}
  PROVE  Spec => []AloneInv(op)
<1>1. Init => AloneInv(op)
  BY InitNamed, InitAlone DEF AloneInv
<1>2. AloneInv(op) /\ [Next]_vars => AloneInv(op)'
  BY NextAlone
<1> QED
  BY <1>1, <1>2, PTL DEF Spec

\* The command that moves on is the one there is, and it was not cut short.
LEMMA MovesAlone ==
  ASSUME NEW op, Operators = {op}, Named, [Next]_vars, pc'[op] # pc[op],
         faults'["cut"] = faults["cut"]
  PROVE  Step(op) /\ ~CutShort(op)
<1>1. Step(op)
  BY DEF Next, Around, StartGuest, StopGuest, Snapshot, RestoreGuest, RemoveGuest, LoseBroker, vars
<1>2. ~CutShort(op)
  BY DEF CutShort, Fault, FaultKinds, Named, Counted
<1> QED
  BY <1>1, <1>2

\* While one operator works, a cut between ssh-keygen's two files, or between the
\* key that is fetched and the one derived from it, leaves no pair of two keys.
THEOREM PairsMatch ==
  ASSUME NEW op, Operators = {op}
  PROVE  Spec => []PairMatches
<1>0. Spec => []AloneInv(op)
  BY AlwaysAlone
<1>1. AloneInv(op) => PairMatches
  <2> SUFFICES ASSUME AloneInv(op), NEW g \in Guests, HasPair(g), faults["cut"] <= 1
               PROVE  \/ priv[g] = pub[g] \/ pub[g] = Torn
                      \/ pc[op] \in {"keygen_pub", "fill_priv", "derive", "fill_pub"}
    BY DEF PairMatches
  <2>1. faults["cut"] \in Nat /\ PairOf(op, g) /\ Written(op)
    BY DEF AloneInv, Alone, Named, Counted, FaultKinds
  <2>2. CASE faults["cut"] = 0
    BY <2>1, <2>2 DEF PairOf, Written, Writing, Fetching, Matches, HasPair
  <2>3. CASE faults["cut"] = 1
    BY <2>1, <2>3 DEF PairOf, Writing, Fetching, Matches
  <2> QED
    BY <2>1, <2>2, <2>3
<1> QED
  BY <1>0, <1>1, PTL

\* The key ensure_guest_google_oauth_runtime writes to a guest's disk is the one the
\* line of authorized_keys, rewritten just before, has for that guest.
THEOREM KeyConnects ==
  ASSUME NEW op, Operators = {op}
  PROVE  Spec => InstalledKeyConnects
<1>0. Spec => []AloneInv(op)
  BY AlwaysAlone
<1> DEFINE g == work[op].guest
           C == \/ disk'[g] \in Keys /\ authorized[g] = disk'[g]
                \/ pub[g] = Torn \/ faults["cut"] > 1
<1>1. ASSUME AloneInv(op), [Next]_vars, pc[op] = "install", pc'[op] # "install",
             faults["cut"] = faults'["cut"]
      PROVE  C
  <2>1. Install(op)
    BY <1>1, MovesAlone
       DEF AloneInv, Step, Ensure, Reconcile, Keygen, KeygenPub, SkipGuest, FetchKey,
           FetchFails, FetchHangs,
           FillPriv, Derive, FillPub, Synced, Orphans, Prune, PrunePub, Collect, Fill, Save
  <2>2. g \in Guests /\ work[op].cmd # "reconcile"
    BY <1>1 DEF AloneInv, Named, Running, Fits
  <2>3. HasPair(g) /\ authorized = Lines
    BY <1>1, <2>2 DEF AloneInv, Alone, Served
  <2>4. faults["cut"] \in {0, 1} => Matches(g) \/ pub[g] = Torn
    BY <1>1, <2>2, <2>3, AtRest DEF AloneInv, Fetching, HasPair
  <2>5. Matches(g) => disk'[g] = priv[g] /\ priv[g] \in Keys /\ Lines[g] = priv[g]
    BY <1>1, <2>1, <2>2, NotKeys DEF Install, Matches, Lines, AloneInv, Named, Kept
  <2>6. faults["cut"] \in Nat
    BY <1>1 DEF AloneInv, Named, Counted, FaultKinds
  <2> QED
    BY <2>3, <2>4, <2>5, <2>6
<1>2. AloneInv(op) /\ [Next]_vars =>
        (pc[op] = "install" /\ pc'[op] # "install" /\ faults["cut"] = faults'["cut"] => C)
  BY <1>1
<1>3. AloneInv(op) /\ [Next]_vars =>
        [\A p \in Operators :
           LET h == work[p].guest IN
           pc[p] = "install" /\ pc'[p] # "install" /\ faults["cut"] = faults'["cut"]
             => \/ disk'[h] \in Keys /\ authorized[h] = disk'[h]
                \/ pub[h] = Torn \/ faults["cut"] > 1]_vars
  BY <1>2
<1> QED
  BY <1>0, <1>3, PTL DEF Spec, InstalledKeyConnects

\* A command that ends, also because ssh hangs, ssh-keygen fails or a key is
\* missing, leaves the guests that were connected when it began with their lines
\* and their keys: reconciling comes before the refresh of authorized_keys, which
\* drops who has no pair.
THEOREM ConnectionsSafe ==
  ASSUME NEW op, Operators = {op}
  PROVE  Spec => ConnectionsAreKept
<1>0. Spec => []AloneInv(op)
  BY AlwaysAlone
<1>1. ASSUME AloneInv(op), [Next]_vars, pc[op] # "idle", pc'[op] = "idle",
             faults["cut"] = faults'["cut"], NEW g \in work[op].kept
      PROVE  authorized'[g] \in Keys /\ authorized'[g] = disk'[g]
  <2>1. Step(op) /\ ~CutShort(op) /\ KeptOf(op)
    BY <1>1, MovesAlone DEF AloneInv, Alone
  <2>2. disk[g] \in Keys /\ (IF pc[op] = "fill" THEN work[op].lines ELSE authorized)[g] = disk[g]
    BY <2>1 DEF KeptOf
  <2>3. authorized' = IF pc[op] = "fill" THEN work[op].lines ELSE authorized
    <3>1. ASSUME NEW l \in Labels \ {"idle"}, NEW w, Goto(op, l, w)
          PROVE  FALSE
      BY <1>1, <3>1, MovesTo DEF AloneInv
    <3> QED
      BY <1>1, <2>1, <3>1
         DEF Step, Ensure, Reconcile, Keygen, KeygenPub, SkipGuest, FetchKey, FetchFails, FetchHangs,
             FillPriv,
             Derive, FillPub, Synced, Orphans, Prune, PrunePub, Collect, Fill, Install, Save,
             broker, Labels
  <2>4. disk'[g] = disk[g]
    <3>1. CASE Install(op)
      BY <1>1, <2>1, <3>1, NotKeys DEF Install, KeptOf, AloneInv, Named, Kept, Running, Work
    <3>2. CASE ~Install(op)
      BY <1>1, <2>1, <3>2
         DEF Step, Ensure, Reconcile, Keygen, KeygenPub, SkipGuest, FetchKey, FetchFails, FetchHangs,
             FillPriv,
             Derive, FillPub, Synced, Orphans, Prune, PrunePub, Collect, Fill, Save, guests
    <3> QED
      BY <3>1, <3>2
  <2> QED
    BY <2>2, <2>3, <2>4
<1>2. AloneInv(op) /\ [Next]_vars =>
        [\A p \in Operators :
           pc[p] # "idle" /\ pc'[p] = "idle" /\ faults["cut"] = faults'["cut"] =>
             \A g \in work[p].kept : authorized'[g] \in Keys /\ authorized'[g] = disk'[g]]_vars
  BY <1>1
<1> QED
  BY <1>0, <1>2, PTL DEF Spec, ConnectionsAreKept

\* A reconcile that reaches its end gives a line to every guest that was up all the
\* time and had lost its pair, for the key that was fetched from its disk, unless
\* the ssh of the second pass failed too and the guest was passed over.
THEOREM ReconcileWorks ==
  ASSUME NEW op, Operators = {op}
  PROVE  Spec => ReconcileHeals
<1>0. Spec => []AloneInv(op)
  BY AlwaysAlone
<1>1. ASSUME AloneInv(op), [Next]_vars, pc[op] = "fill", pc'[op] = "idle",
             faults["cut"] = faults'["cut"], NEW g \in work[op].missing, disk[g] \in Keys
      PROVE  authorized'[g] = disk[g]
  <2>1. Fill(op)
    BY <1>1, MovesAlone
       DEF AloneInv, Step, Ensure, Reconcile, Keygen, KeygenPub, SkipGuest, FetchKey,
           FetchFails, FetchHangs,
           FillPriv, Derive, FillPub, Synced, Orphans, Prune, PrunePub, Collect, Install, Save
  <2>2. work[op].cmd = "reconcile" /\ authorized' = work[op].lines
    BY <1>1, <2>1, MovesTo DEF Fill, AloneInv
  <2>3. work[op].lines = Lines /\ Heals(op) /\ g \in Guests
    BY <1>1 DEF AloneInv, Alone, Served, Named, Running, Work
  <2>4. priv[g] = disk[g] /\ pub[g] = disk[g]
    BY <1>1, <2>2, <2>3 DEF Heals, Fetching
  <2> QED
    BY <1>1, <2>2, <2>3, <2>4, NotKeys DEF Lines
<1>2. AloneInv(op) /\ [Next]_vars =>
        [\A p \in Operators :
           pc[p] = "fill" /\ pc'[p] = "idle" /\ faults["cut"] = faults'["cut"] =>
             \A g \in work[p].missing \cap awake :
               disk[g] \in Keys => authorized'[g] = disk[g]]_vars
  BY <1>1
<1> QED
  BY <1>0, <1>2, PTL DEF Spec, ReconcileHeals

=============================================================================
