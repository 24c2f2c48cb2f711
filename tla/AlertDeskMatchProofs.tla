------------------------ MODULE AlertDeskMatchProofs ------------------------
(***************************************************************************)
(* No match of a stored claim and a live client is forgotten: a proof of   *)
(* NoMatchIsForgotten.  The invariant behind it says what each thread owes *)
(* at each of its steps, in terms of the copies it holds then.             *)
(***************************************************************************)
EXTENDS AlertDeskProofs

\* A match there should be an alert for.
Due(c, k) == Live(k) /\ Match(terms[c], profile[k]) # {}

\* It has its alert, or it was given up.
Settled(c, k) == status[<<c, k>>] # "none" \/ <<c, k>> \in lost

\* An ingester with a new claim still has to read it or the clients; or it has
\* read the claim and the copy matches; or it holds the alert.
OwedByIngester(i, c, k) ==
  LET me == ingester[i] IN
  /\ c \in me.fresh
  /\ me.pc \notin {"idle", "insert"}
  /\ me.pc = "list" /\ me.claim = c => Match(me.copy, profile[k]) # {}
  /\ me.pc = "raise" /\ me.claim = c => me.hits[k] # {}

\* An editor of the client still has to read it; or the claims, with a copy of
\* the client that is current; or it holds the alert.
OwedByEditor(e, c, k) ==
  LET me == editor[e] IN
  /\ me.client = k
  /\ \/ me.pc = "client"
     \/ me.pc = "claims" /\ me.copy = profile[k]
     \/ me.hits[c] # {}

Owed(c, k) ==
  \/ Settled(c, k)
  \/ \E i \in Ingesters : OwedByIngester(i, c, k)
  \/ \E e \in Editors : OwedByEditor(e, c, k)

MatchesAreOwed == \A c \in Claims, k \in Clients : Due(c, k) => Owed(c, k)

-----------------------------------------------------------------------------
(* Frames: whom a step leaves alone still owes what it owed. *)

LEMMA StillOwedByIngester ==
  ASSUME NEW i \in Ingesters, NEW c \in Claims, NEW k \in Clients,
         OwedByIngester(i, c, k), ingester'[i] = ingester[i], profile'[k] = profile[k]
  PROVE  OwedByIngester(i, c, k)'
BY DEF OwedByIngester, Match

LEMMA StillOwedByEditor ==
  ASSUME NEW e \in Editors, NEW c \in Claims, NEW k \in Clients,
         OwedByEditor(e, c, k), profile'[k] = profile[k],
         editor'[e].pc = editor[e].pc, editor'[e].client = editor[e].client,
         editor'[e].copy = editor[e].copy, editor'[e].hits = editor[e].hits
  PROVE  OwedByEditor(e, c, k)'
BY DEF OwedByEditor

\* A step of ingester i, whatever it does to claims: what i owed must be owed
\* still, and what becomes due must be owed by it or given up.
LEMMA IngesterStep ==
  ASSUME MatchesAreOwed, NEW i \in Ingesters,
         UNCHANGED <<client, profile, editor>>,
         \A j \in Ingesters \ {i} : ingester'[j] = ingester[j],
         \A c \in Claims, k \in Clients : Settled(c, k) => Settled(c, k)',
         \A c \in Claims, k \in Clients :
           OwedByIngester(i, c, k) /\ Due(c, k)' => Owed(c, k)',
         \A c \in Claims, k \in Clients :
           ~Due(c, k) /\ Due(c, k)' => Owed(c, k)'
  PROVE  MatchesAreOwed'
<1> SUFFICES ASSUME NEW c \in Claims, NEW k \in Clients, Due(c, k)'
             PROVE  Owed(c, k)'
  BY DEF MatchesAreOwed
<1>1. CASE ~Due(c, k)
  BY <1>1
<1>2. CASE Due(c, k)
  <2>1. Owed(c, k)
    BY <1>2 DEF MatchesAreOwed
  <2>2. CASE Settled(c, k)
    BY <2>2 DEF Owed
  <2>3. ASSUME NEW j \in Ingesters, OwedByIngester(j, c, k) PROVE Owed(c, k)'
    <3>1. CASE j = i
      BY <2>3, <3>1
    <3>2. CASE j # i
      <4>1. OwedByIngester(j, c, k)'
        BY <2>3, <3>2, StillOwedByIngester
      <4> QED BY <4>1 DEF Owed
    <3> QED BY <3>1, <3>2
  <2>4. ASSUME NEW e \in Editors, OwedByEditor(e, c, k) PROVE Owed(c, k)'
    <3>1. OwedByEditor(e, c, k)'
      BY <2>4, StillOwedByEditor
    <3> QED BY <3>1 DEF Owed
  <2> QED BY <2>1, <2>2, <2>3, <2>4 DEF Owed
<1> QED BY <1>1, <1>2

\* The same of a step of editor e for clients whose profile it leaves alone.
LEMMA EditorStep ==
  ASSUME MatchesAreOwed, NEW e \in Editors, NEW c \in Claims, NEW k \in Clients,
         UNCHANGED <<terms, ingester>>,
         client'[k] = client[k], profile'[k] = profile[k],
         \A f \in Editors \ {e} :
           /\ editor'[f].pc = editor[f].pc /\ editor'[f].client = editor[f].client
           /\ editor'[f].copy = editor[f].copy /\ editor'[f].hits = editor[f].hits,
         Settled(c, k) => Settled(c, k)',
         OwedByEditor(e, c, k) /\ Due(c, k) => Owed(c, k)'
  PROVE  Due(c, k)' => Owed(c, k)'
<1> SUFFICES ASSUME Due(c, k)' PROVE Owed(c, k)'
  OBVIOUS
<1>1. Due(c, k)
  BY DEF Due, Live, Match
<1>2. Owed(c, k)
  BY <1>1 DEF MatchesAreOwed
<1>3. CASE Settled(c, k)
  BY <1>3 DEF Owed
<1>4. ASSUME NEW i \in Ingesters, OwedByIngester(i, c, k) PROVE Owed(c, k)'
  <2>1. OwedByIngester(i, c, k)'
    BY <1>4, StillOwedByIngester
  <2> QED BY <2>1 DEF Owed
<1>5. ASSUME NEW f \in Editors, OwedByEditor(f, c, k) PROVE Owed(c, k)'
  <2>1. CASE f = e
    BY <1>1, <1>5, <2>1
  <2>2. CASE f # e
    <3>1. OwedByEditor(f, c, k)'
      BY <1>5, <2>2, StillOwedByEditor
    <3> QED BY <3>1 DEF Owed
  <2> QED BY <2>1, <2>2
<1> QED BY <1>2, <1>3, <1>4, <1>5 DEF Owed

\* Raising an alert settles it and unsettles none.
LEMMA RaiseSettles ==
  ASSUME TypeOK, NEW d \in Claims, NEW l \in Clients, NEW shared,
         RaiseAlert(<<d, l>>, shared), UNCHANGED lost
  PROVE  /\ Settled(d, l)'
         /\ \A c \in Claims, k \in Clients : Settled(c, k) => Settled(c, k)'
<1>1. status' = [status EXCEPT ![<<d, l>>] = IF @ = "none" THEN "new" ELSE @]
  BY DEF RaiseAlert
<1>2. status'[<<d, l>>] # "none"
  BY <1>1 DEF TypeOK, Alerts
<1>3. \A c \in Claims, k \in Clients :
        status[<<c, k>>] # "none" => status'[<<c, k>>] # "none"
  BY <1>1 DEF TypeOK, Alerts
<1> QED BY <1>2, <1>3 DEF Settled

-----------------------------------------------------------------------------
(* Ingestion. *)

\* What Continue makes of an ingester owes all that is left of its work.
LEMMA ContinueOwes ==
  ASSUME NEW i \in Ingesters, NEW me \in IngesterRecord, me.pc \in {"list", "raise"},
         ingester'[i] = Continue(me), NEW c \in me.fresh, NEW k \in Clients,
         c = me.claim => me.hits[k] # {}
  PROVE  OwedByIngester(i, c, k)'
<1>1. CASE \E l \in Clients : me.hits[l] # {}
  <2>1. ingester'[i] = [me EXCEPT !.pc = "raise"]
    BY <1>1 DEF Continue
  <2>2. /\ ingester'[i].pc = "raise" /\ ingester'[i].fresh = me.fresh
        /\ ingester'[i].claim = me.claim /\ ingester'[i].hits = me.hits
    BY <2>1 DEF IngesterRecord, IngesterFields
  <2> QED BY <2>2 DEF OwedByIngester
<1>2. CASE ~\E l \in Clients : me.hits[l] # {}
  <2>1. c # me.claim
    BY <1>2
  <2>2. ingester'[i] = [me EXCEPT !.pc = "match", !.fresh = @ \ {me.claim},
                                  !.claim = NoClaim, !.copy = {}]
    BY <1>2, <2>1 DEF Continue
  <2>3. ingester'[i].pc = "match" /\ ingester'[i].fresh = me.fresh \ {me.claim}
    BY <2>2 DEF IngesterRecord, IngesterFields
  <2> QED BY <2>1, <2>3 DEF OwedByIngester
<1> QED BY <1>1, <1>2

\* An exception settles all that the ingester owed.
LEMMA AbortSettles ==
  ASSUME NEW i \in Ingesters, Abort(i), UNCHANGED status,
         NEW c \in Claims, NEW k \in Clients
  PROVE  /\ Settled(c, k) => Settled(c, k)'
         /\ OwedByIngester(i, c, k) => Settled(c, k)'
<1>1. lost' = lost \cup UNION {Matches(d) : d \in ingester[i].fresh}
  BY DEF Abort
<1>2. <<c, k>> \in Matches(c)
  BY DEF Matches
<1> QED BY <1>1, <1>2 DEF Settled, OwedByIngester

\* A step that leaves claims and alerts alone: what its ingester owed it still
\* has to owe.
LEMMA QuietIngest ==
  ASSUME MatchesAreOwed, TypeOK, NEW i \in Ingesters, Ingest(i),
         UNCHANGED <<client, profile, terms, status, lost, editor>>,
         \A c \in Claims, k \in Clients :
           OwedByIngester(i, c, k) /\ Due(c, k) => Owed(c, k)'
  PROVE  MatchesAreOwed'
<1>1. \A j \in Ingesters \ {i} : ingester'[j] = ingester[j]
  BY OthersStay
<1>2. \A c \in Claims, k \in Clients : /\ Due(c, k)' <=> Due(c, k)
                                       /\ Settled(c, k)' <=> Settled(c, k)
  BY DEF Due, Settled, Live, Match
<1> QED BY <1>1, <1>2, IngesterStep

LEMMA IngestOwes ==
  ASSUME TypeOK, PlansAreStored, MatchesAreOwed, NEW i \in Ingesters, Ingest(i)
  PROVE  MatchesAreOwed'
<1> DEFINE me == ingester[i]
<1>m. me \in IngesterRecord /\ me.fresh \subseteq Claims
  BY DEF TypeOK, IngesterRecord, IngesterFields
<1>t. ingester \in [Ingesters -> IngesterRecord]
  BY DEF TypeOK
<1>o. \A j \in Ingesters \ {i} : ingester'[j] = ingester[j]
  BY OthersStay
<1> USE DEF IngesterAt, clientVars, claimVars, deskVars
<1>1. ASSUME NEW batch \in SUBSET Payloads, Lookup(i, batch) PROVE MatchesAreOwed'
  <2>1. \A c \in Claims, k \in Clients : ~OwedByIngester(i, c, k)
    BY <1>1 DEF Lookup, OwedByIngester
  <2>2. UNCHANGED <<client, profile, terms, status, lost, editor>>
    BY <1>1 DEF Lookup
  <2> QED BY <2>1, <2>2, QuietIngest
<1>2. CASE PostInsert(i)
  <2>1. PICK p \in Payloads : me.batch = {p} /\ me.fresh = {ClaimOf[p]}
    BY <1>2 DEF PostInsert, PlansAreStored, IngesterPlan
  <2>2. UNCHANGED <<client, profile, status, lost, editor>> /\ me.pc = "insert"
    BY <1>2 DEF PostInsert
  <2>3. \A c \in Claims, k \in Clients : /\ ~OwedByIngester(i, c, k)
                                         /\ Settled(c, k) => Settled(c, k)'
    BY <2>2 DEF OwedByIngester, Settled
  <2>4. CASE Stored(ClaimOf[p])
    <3>1. UNCHANGED terms
      BY <1>2, <2>1, <2>4 DEF PostInsert
    <3> QED BY <2>2, <2>3, <3>1, QuietIngest
  <2>5. CASE ~Stored(ClaimOf[p])
    <3>1. /\ ingester' = [ingester EXCEPT ![i].pc = "observe"]
          /\ terms' = [terms EXCEPT ![ClaimOf[p]] = TermsOf[p]]
      BY <1>2, <2>1, <2>5 DEF PostInsert
    <3>2. ingester'[i].pc = "observe" /\ ingester'[i].fresh = {ClaimOf[p]}
      BY <3>1, <2>1, <1>t, <1>m DEF IngesterRecord, IngesterFields
    <3>3. \A k \in Clients : OwedByIngester(i, ClaimOf[p], k)'
      BY <3>2 DEF OwedByIngester
    <3>4. \A c \in Claims : c # ClaimOf[p] => terms'[c] = terms[c]
      BY <3>1 DEF TypeOK
    <3>5. \A c \in Claims, k \in Clients : ~Due(c, k) /\ Due(c, k)' => Owed(c, k)'
      BY <2>2, <3>3, <3>4 DEF Due, Live, Match, Owed
    <3> QED BY <2>2, <2>3, <3>5, <1>o, IngesterStep
  <2> QED BY <2>4, <2>5
<1>3. CASE MergeRead(i)
  <2>1. me.pc = "merge" /\ UNCHANGED <<client, profile, terms, status, lost, editor>>
    BY <1>3 DEF MergeRead
  <2>2. ingester'[i].pc = "write" /\ ingester'[i].fresh = me.fresh
    BY <1>3, <1>t, <1>m DEF MergeRead, IngesterRecord, IngesterFields
  <2>3. \A c \in Claims, k \in Clients : OwedByIngester(i, c, k) => Owed(c, k)'
    BY <2>2 DEF OwedByIngester, Owed
  <2> QED BY <2>1, <2>3, QuietIngest
<1>4. CASE MergeWrite(i)
  <2> DEFINE Late(c) == IF c \in me.fresh THEN {} ELSE terms'[c] \ terms[c]
  <2>1. me.pc = "write" /\ UNCHANGED <<client, profile, status, editor>>
    BY <1>4 DEF MergeWrite
  <2>2. ingester'[i].pc = "observe" /\ ingester'[i].fresh = me.fresh
    BY <1>4, <1>t, <1>m DEF MergeWrite, IngesterRecord, IngesterFields
  <2>3. lost' = lost \cup {a \in Alerts : Match(Late(a[1]), profile[a[2]]) # {}}
    BY <1>4 DEF MergeWrite, Alerts
  <2>4. \A c \in Claims, k \in Clients : c \in me.fresh => OwedByIngester(i, c, k)'
    BY <2>2 DEF OwedByIngester
  <2>5. \A c \in Claims, k \in Clients : Settled(c, k) => Settled(c, k)'
    BY <2>1, <2>3 DEF Settled
  <2>6. ASSUME NEW c \in Claims, NEW k \in Clients, ~Due(c, k), Due(c, k)', c \notin me.fresh
        PROVE  <<c, k>> \in lost'
    <3>1. PICK x : x \in terms'[c] /\ x \in profile[k] /\ x \notin terms[c]
      BY <2>1, <2>6 DEF Due, Live, Match
    <3>2. Match(Late(c), profile[k]) # {}
      BY <2>6, <3>1 DEF Match
    <3> QED BY <2>3, <3>2 DEF Alerts
  <2>7. \A c \in Claims, k \in Clients : ~Due(c, k) /\ Due(c, k)' => Owed(c, k)'
    BY <2>4, <2>6 DEF Owed, Settled
  <2>8. \A c \in Claims, k \in Clients : OwedByIngester(i, c, k) => Owed(c, k)'
    BY <2>4 DEF Owed, OwedByIngester
  <2> QED BY <2>1, <2>5, <2>7, <2>8, <1>o, IngesterStep
<1>5. CASE Observe(i)
  <2>1. me.pc = "observe" /\ UNCHANGED <<client, profile, terms, status, editor>>
    BY <1>5 DEF Observe
  <2>2. CASE Abort(i)
    <3>1. \A c \in Claims, k \in Clients : Due(c, k)' <=> Due(c, k)
      BY <2>1 DEF Due, Live, Match
    <3>2. \A c \in Claims, k \in Clients :
            /\ Settled(c, k) => Settled(c, k)'
            /\ OwedByIngester(i, c, k) => Owed(c, k)'
      BY <2>1, <2>2, AbortSettles DEF Owed
    <3> QED BY <2>1, <3>1, <3>2, <1>o, IngesterStep
  <2>3. CASE ~Abort(i)
    <3>1. PICK p \in me.todo :
            ingester' = [ingester EXCEPT ![i] =
              IF me.todo # {p} THEN [me EXCEPT !.todo = @ \ {p}]
              ELSE IF me.fresh = {} THEN IdleIngester
              ELSE [me EXCEPT !.pc = "match", !.todo = {}]]
      BY <1>5, <2>3 DEF Observe
    <3>2. UNCHANGED lost
      BY <1>5, <2>3 DEF Observe
    <3>3. me.fresh # {} => ingester'[i].pc \in {"observe", "match"} /\ ingester'[i].fresh = me.fresh
      BY <3>1, <2>1, <1>t, <1>m DEF IngesterRecord, IngesterFields
    <3>4. \A c \in Claims, k \in Clients : OwedByIngester(i, c, k) => Owed(c, k)'
      BY <3>3 DEF OwedByIngester, Owed
    <3> QED BY <2>1, <3>2, <3>4, QuietIngest
  <2> QED BY <2>2, <2>3
<1>6. CASE ReadClaim(i)
  <2>1. me.pc = "match" /\ UNCHANGED <<client, profile, terms, status, lost, editor>>
    BY <1>6 DEF ReadClaim
  <2>2. PICK d \in me.fresh :
          ingester' = [ingester EXCEPT ![i].pc = "list", ![i].claim = d, ![i].copy = terms[d]]
    BY <1>6 DEF ReadClaim
  <2>3. /\ ingester'[i].pc = "list" /\ ingester'[i].fresh = me.fresh
        /\ ingester'[i].claim = d /\ ingester'[i].copy = terms[d]
    BY <2>2, <1>t, <1>m DEF IngesterRecord, IngesterFields
  <2>4. ASSUME NEW c \in Claims, NEW k \in Clients, OwedByIngester(i, c, k), Due(c, k)
        PROVE  OwedByIngester(i, c, k)'
    BY <2>1, <2>3, <2>4 DEF OwedByIngester, Due, Match
  <2> QED BY <2>1, <2>4, QuietIngest DEF Owed
<1>7. CASE ListClients(i)
  <2> DEFINE hits == [k \in Clients |-> IF Live(k) THEN Match(me.copy, profile[k]) ELSE {}]
             next == [me EXCEPT !.hits = hits]
  <2>1. me.pc = "list" /\ UNCHANGED <<client, profile, terms, status, lost, editor>>
    BY <1>7 DEF ListClients
  <2>2. ingester'[i] = Continue(next)
    BY <1>7, <1>t DEF ListClients
  <2>3. /\ next \in IngesterRecord /\ next.fresh = me.fresh /\ next.pc = "list"
        /\ next.claim = me.claim /\ next.hits = hits
    BY <1>m, <2>1 DEF IngesterRecord, IngesterFields, Match, TypeOK
  <2>4. ASSUME NEW c \in Claims, NEW k \in Clients, OwedByIngester(i, c, k), Due(c, k)
        PROVE  OwedByIngester(i, c, k)'
    <3>1. c \in me.fresh /\ (c = me.claim => Match(me.copy, profile[k]) # {}) /\ Live(k)
      BY <2>1, <2>4 DEF OwedByIngester, Due
    <3>2. c = me.claim => hits[k] # {}
      BY <3>1
    <3> HIDE DEF next, hits
    <3> QED BY <2>2, <2>3, <3>1, <3>2, ContinueOwes
  <2> QED BY <2>1, <2>4, QuietIngest DEF Owed
<1>8. CASE MatchClaim(i)
  <2>1. /\ me.pc = "raise" /\ UNCHANGED <<client, profile, terms, editor>>
        /\ me.claim \in me.fresh
    BY <1>8, <1>m DEF MatchClaim, IngesterRecord
  <2>2. PICK l \in Clients :
          IF ClientKeyHolds(l)
          THEN /\ RaiseAlert(<<me.claim, l>>, me.hits[l])
               /\ ingester' = [ingester EXCEPT ![i] = Continue([me EXCEPT !.hits[l] = {}])]
               /\ UNCHANGED lost
          ELSE Abort(i) /\ UNCHANGED <<status, basis>>
    BY <1>8 DEF MatchClaim
  <2>3. \A c \in Claims, k \in Clients : Due(c, k)' <=> Due(c, k)
    BY <2>1 DEF Due, Live, Match
  <2>4. CASE Abort(i) /\ UNCHANGED <<status, basis>>
    <3>1. \A c \in Claims, k \in Clients :
            /\ Settled(c, k) => Settled(c, k)'
            /\ OwedByIngester(i, c, k) => Owed(c, k)'
      BY <2>4, AbortSettles DEF Owed
    <3> QED BY <2>1, <2>3, <3>1, <1>o, IngesterStep
  <2>5. CASE ClientKeyHolds(l)
    <3> DEFINE next == [me EXCEPT !.hits[l] = {}]
    <3>1. /\ RaiseAlert(<<me.claim, l>>, me.hits[l]) /\ UNCHANGED lost
          /\ ingester'[i] = Continue(next)
      BY <2>2, <2>5, <1>t
    <3>2. /\ next \in IngesterRecord /\ next.fresh = me.fresh /\ next.pc = "raise"
          /\ next.claim = me.claim /\ \A k \in Clients : k # l => next.hits[k] = me.hits[k]
      BY <1>m, <2>1 DEF IngesterRecord, IngesterFields
    <3>d. PICK d \in Claims : d = me.claim
      BY <2>1, <1>m
    <3>3. \A c \in Claims, k \in Clients : Settled(c, k) => Settled(c, k)'
      BY <3>1, <3>d, RaiseSettles
    <3>4. Settled(d, l)'
      BY <3>1, <3>d, RaiseSettles
    <3>5. ASSUME NEW c \in Claims, NEW k \in Clients, OwedByIngester(i, c, k)
          PROVE  Owed(c, k)'
      <4>1. CASE c = d /\ k = l
        BY <4>1, <3>4 DEF Owed
      <4>2. CASE ~(c = d /\ k = l)
        <5>1. c \in me.fresh /\ (c = me.claim => me.hits[k] # {})
          BY <2>1, <3>5 DEF OwedByIngester
        <5>2. c = me.claim => next.hits[k] # {}
          BY <5>1, <4>2, <3>2, <3>d
        <5> HIDE DEF next
        <5>3. OwedByIngester(i, c, k)'
          BY <3>1, <3>2, <5>1, <5>2, ContinueOwes
        <5> QED BY <5>3 DEF Owed
      <4> QED BY <4>1, <4>2
    <3> QED BY <2>1, <2>3, <3>3, <3>5, <1>o, IngesterStep
  <2> QED BY <2>2, <2>4, <2>5
<1> QED BY <1>1, <1>2, <1>3, <1>4, <1>5, <1>6, <1>7, <1>8 DEF Ingest

LEMMA CollectOwes ==
  ASSUME TypeOK, MatchesAreOwed, CollectInsert
  PROVE  MatchesAreOwed'
<1> DEFINE me == ingester[Collector]
           mine == {c \in me.fresh : ~Stored(c)}
<1> USE DEF clientVars, deskVars
<1>1. me.pc = "insert" /\ UNCHANGED <<client, profile, status, lost, editor>>
  BY DEF CollectInsert
<1>2. me \in IngesterRecord /\ ingester \in [Ingesters -> IngesterRecord]
        /\ Collector \in Ingesters
  BY DEF TypeOK, Ingesters
<1>3. ingester'[Collector].pc = "merge" /\ ingester'[Collector].fresh = mine
  BY <1>2 DEF CollectInsert, IngesterRecord, IngesterFields
<1>4. \A c \in Claims : c \notin mine => terms'[c] = terms[c]
  BY DEF CollectInsert
<1>5. \A c \in Claims, k \in Clients : c \in mine => OwedByIngester(Collector, c, k)'
  BY <1>3 DEF OwedByIngester
<1>6. \A c \in Claims, k \in Clients : ~Due(c, k) /\ Due(c, k)' => Owed(c, k)'
  BY <1>1, <1>2, <1>4, <1>5 DEF Due, Live, Match, Owed
<1>7. \A c \in Claims, k \in Clients : /\ ~OwedByIngester(Collector, c, k)
                                       /\ Settled(c, k) => Settled(c, k)'
  BY <1>1 DEF OwedByIngester, Settled
<1>8. \A j \in Ingesters \ {Collector} : ingester'[j] = ingester[j]
  BY OthersStay
<1> QED BY <1>1, <1>2, <1>6, <1>7, <1>8, IngesterStep

-----------------------------------------------------------------------------
(* Clients. *)

\* An editor without alerts to write and past its reading owes nothing.
LEMMA NothingOwed ==
  ASSUME PlansAreStored, NEW e \in Editors, editor[e].pc \notin {"client", "claims", "raise"},
         NEW c \in Claims, NEW k \in Clients
  PROVE  ~OwedByEditor(e, c, k)
BY DEF PlansAreStored, EditorPlan, OwedByEditor

LEMMA SaveOwes ==
  ASSUME TypeOK, PlansAreStored, MatchesAreOwed, NEW e \in Editors, NEW k \in Clients,
         NEW watched \in Profiles, SaveClient(e, k, watched),
         \A f \in Editors \ {e} :
           /\ editor'[f].pc = editor[f].pc /\ editor'[f].client = editor[f].client
           /\ editor'[f].copy = editor[f].copy /\ editor'[f].hits = editor[f].hits
  PROVE  MatchesAreOwed'
<1> USE DEF claimVars, deskVars
<1>1. /\ UNCHANGED <<terms, status, lost, ingester>> /\ editor[e].pc = "idle"
      /\ editor' = [editor EXCEPT ![e].pc = "client", ![e].client = k]
      /\ client' = [client EXCEPT ![k] = "live"]
      /\ profile' = [profile EXCEPT ![k] = watched]
  BY DEF SaveClient, EditorAt
<1>2. editor'[e].pc = "client" /\ editor'[e].client = k
  BY <1>1 DEF TypeOK, EditorRecord, EditorFields
<1>3. \A c \in Claims : OwedByEditor(e, c, k)'
  BY <1>2 DEF OwedByEditor
<1>4. ASSUME NEW c \in Claims, NEW l \in Clients, l # k
      PROVE  Due(c, l)' => Owed(c, l)'
  <2>1. client'[l] = client[l] /\ profile'[l] = profile[l]
    BY <1>1, <1>4 DEF TypeOK
  <2>2. Settled(c, l) => Settled(c, l)'
    BY <1>1 DEF Settled
  <2>3. ~OwedByEditor(e, c, l)
    BY <1>1, NothingOwed
  <2> QED BY <1>1, <2>1, <2>2, <2>3, EditorStep
<1> QED BY <1>3, <1>4 DEF MatchesAreOwed, Owed

\* A step of an editor that leaves clients, claims and alerts alone.
LEMMA QuietEdit ==
  ASSUME MatchesAreOwed, TypeOK, NEW e \in Editors,
         UNCHANGED <<client, profile, terms, status, lost, ingester>>,
         \A f \in Editors \ {e} :
           /\ editor'[f].pc = editor[f].pc /\ editor'[f].client = editor[f].client
           /\ editor'[f].copy = editor[f].copy /\ editor'[f].hits = editor[f].hits,
         \A c \in Claims, k \in Clients :
           OwedByEditor(e, c, k) /\ Due(c, k) => Owed(c, k)'
  PROVE  MatchesAreOwed'
<1>1. \A c \in Claims, k \in Clients : Settled(c, k) => Settled(c, k)'
  BY DEF Settled
<1>2. ASSUME NEW c \in Claims, NEW k \in Clients PROVE Due(c, k)' => Owed(c, k)'
  BY <1>1, EditorStep
<1> QED BY <1>2 DEF MatchesAreOwed

LEMMA EditOwes ==
  ASSUME TypeOK, PlansAreStored, MatchesAreOwed, NEW e \in Editors, Edit(e)
  PROVE  MatchesAreOwed'
<1> DEFINE me == editor[e]
           Others == \A f \in Editors \ {e} :
             /\ editor'[f].pc = editor[f].pc /\ editor'[f].client = editor[f].client
             /\ editor'[f].copy = editor[f].copy /\ editor'[f].hits = editor[f].hits
           Quiet == UNCHANGED <<client, profile, terms, status, lost, ingester>>
<1>m. me \in EditorRecord /\ editor \in [Editors -> EditorRecord]
  BY DEF TypeOK
<1>o. Others
  <2>1. EditorPlan(e)
    BY DEF PlansAreStored
  <2>2. \A c \in Claims : Stored(c) => Stored(c)'
    BY StoredStays DEF Next
  <2> QED BY <2>1, <2>2, EditPlan
<1> HIDE DEF Others
<1> USE DEF EditorAt, clientVars, claimVars, deskVars
<1>1. ASSUME NEW k \in Clients, NEW watched \in Profiles,
             CreateClient(e, k, watched) \/ UpdateClient(e, k, watched)
      PROVE  MatchesAreOwed'
  BY <1>1, <1>o, SaveOwes DEF CreateClient, UpdateClient, Others
<1>2. CASE RematchClient(e)
  <2>1. Quiet /\ me.pc = "client"
    BY <1>2 DEF RematchClient
  <2>2. ASSUME NEW c \in Claims, NEW k \in Clients, OwedByEditor(e, c, k), Due(c, k)
        PROVE  OwedByEditor(e, c, k)'
    <3>1. me.client = k
      BY <2>2 DEF OwedByEditor
    <3>2. editor' = [editor EXCEPT ![e] = [@ EXCEPT !.pc = "claims", !.copy = profile[k]]]
      BY <1>2, <2>2, <3>1 DEF RematchClient, Due
    <3>3. editor'[e].pc = "claims" /\ editor'[e].copy = profile[k] /\ editor'[e].client = k
      BY <3>1, <3>2, <1>m DEF EditorRecord, EditorFields
    <3> QED BY <2>1, <3>3 DEF OwedByEditor
  <2> QED BY <2>1, <2>2, <1>o, QuietEdit DEF Owed, Others
<1>3. CASE RematchClaims(e)
  <2> DEFINE hits == [c \in Claims |-> Match(terms[c], me.copy)]
  <2>1. Quiet /\ me.pc = "claims"
    BY <1>3 DEF RematchClaims
  <2>2. editor'[e].hits = hits /\ editor'[e].client = me.client
    BY <1>3, <1>m DEF RematchClaims, EditorRecord, EditorFields
  <2>3. ASSUME NEW c \in Claims, NEW k \in Clients, OwedByEditor(e, c, k), Due(c, k)
        PROVE  OwedByEditor(e, c, k)'
    <3>1. me.client = k /\ me.copy = profile[k]
      BY <2>1, <2>3 DEF OwedByEditor, PlansAreStored, EditorPlan
    <3>2. hits[c] # {}
      BY <2>3, <3>1 DEF Due
    <3> QED BY <2>2, <3>1, <3>2 DEF OwedByEditor
  <2> QED BY <2>1, <2>3, <1>o, QuietEdit DEF Owed, Others
<1>4. CASE RematchClaim(e)
  <2>1. /\ me.pc = "raise" /\ me.client \in Clients
        /\ UNCHANGED <<client, profile, terms, lost, ingester>>
    BY <1>4, <1>m DEF RematchClaim, EditorRecord
  <2>2. PICK d \in Claims, l \in Clients :
          /\ l = me.client
          /\ IF ClientKeyHolds(l)
             THEN /\ RaiseAlert(<<d, l>>, me.hits[d])
                  /\ editor' = [editor EXCEPT ![e].hits[d] = {},
                       ![e].pc = IF \E c \in Claims \ {d} : me.hits[c] # {}
                                 THEN "raise" ELSE "select"]
             ELSE /\ editor' = [editor EXCEPT ![e] = IdleEditor]
                  /\ UNCHANGED status
    BY <1>4, <2>1 DEF RematchClaim
  <2>3. CASE ~ClientKeyHolds(l)
    <3>1. Quiet
      BY <2>1, <2>2, <2>3
    <3>2. \A c \in Claims, k \in Clients : ~(OwedByEditor(e, c, k) /\ Due(c, k))
      BY <2>2, <2>3 DEF OwedByEditor, Due, ClientKeyHolds
    <3> QED BY <3>1, <3>2, <1>o, QuietEdit DEF Others
  <2>4. CASE ClientKeyHolds(l)
    <3>1. Settled(d, l)' /\ \A c \in Claims, k \in Clients : Settled(c, k) => Settled(c, k)'
      BY <2>1, <2>2, <2>4, RaiseSettles
    <3>2. editor'[e].client = l /\ \A c \in Claims : c # d => editor'[e].hits[c] = me.hits[c]
      BY <2>2, <2>4, <1>m DEF EditorRecord, EditorFields
    <3>3. ASSUME NEW c \in Claims, NEW k \in Clients, OwedByEditor(e, c, k)
          PROVE  Owed(c, k)'
      <4>1. k = l /\ me.hits[c] # {}
        BY <2>1, <2>2, <3>3 DEF OwedByEditor
      <4>2. CASE c = d
        BY <3>1, <4>1, <4>2 DEF Owed
      <4>3. CASE c # d
        BY <3>2, <4>1, <4>3 DEF Owed, OwedByEditor
      <4> QED BY <4>2, <4>3
    <3>4. ASSUME NEW c \in Claims, NEW k \in Clients PROVE Due(c, k)' => Owed(c, k)'
      BY <2>1, <3>1, <3>3, <1>o, EditorStep DEF Others
    <3> QED BY <3>4 DEF MatchesAreOwed
  <2> QED BY <2>3, <2>4
<1>5. CASE CleanupSelect(e) \/ CleanupCheck(e)
  <2>1. Quiet /\ me.pc \notin {"client", "claims", "raise"}
    BY <1>5 DEF CleanupSelect, CleanupCheck
  <2>2. \A c \in Claims, k \in Clients : ~OwedByEditor(e, c, k)
    BY <2>1, NothingOwed
  <2> QED BY <2>1, <2>2, <1>o, QuietEdit DEF Others
<1>6. CASE CleanupDelete(e)
  <2> DEFINE free == {c \in me.candidates : <<c, me.client>> \notin records}
             gone == (me.doomed \cup free) \X {me.client}
  <2>1. me.pc = "delete" /\ UNCHANGED <<client, profile, terms, ingester>>
    BY <1>6 DEF CleanupDelete
  <2>2. \/ UNCHANGED <<status, lost>>
        \/ DeleteAlerts(gone) /\ lost' = lost \cup gone
    BY <1>6 DEF CleanupDelete
  <2> HIDE DEF gone
  <2>3. \A c \in Claims, k \in Clients : Settled(c, k) => Settled(c, k)'
    BY <2>2 DEF Settled, DeleteAlerts, Alerts
  <2>4. \A c \in Claims, k \in Clients : ~OwedByEditor(e, c, k)
    BY <2>1, NothingOwed
  <2>5. ASSUME NEW c \in Claims, NEW k \in Clients PROVE Due(c, k)' => Owed(c, k)'
    BY <2>1, <2>3, <2>4, <1>o, EditorStep DEF Others
  <2> QED BY <2>5 DEF MatchesAreOwed
<1> QED BY <1>1, <1>2, <1>3, <1>4, <1>5, <1>6 DEF Edit

\* Whatever threads owe the other clients, they owe after a deletion.
LEMMA DeleteOwes ==
  ASSUME TypeOK, MatchesAreOwed, NEW k \in Clients, DeleteClient(k)
  PROVE  MatchesAreOwed'
<1> USE DEF claimVars
<1>1. /\ UNCHANGED <<terms, ingester, lost>> /\ DeleteAlerts(Claims \X {k})
      /\ client' = [client EXCEPT ![k] = "deleted"]
      /\ profile' = [profile EXCEPT ![k] = {}]
  BY DEF DeleteClient
<1>2. \A e \in Editors : /\ editor'[e].pc = editor[e].pc /\ editor'[e].client = editor[e].client
                         /\ editor'[e].copy = editor[e].copy /\ editor'[e].hits = editor[e].hits
  <2>1. \A e \in Editors : editor'[e] = Forget(editor[e], Claims \X {k})
    BY DEF DeleteClient
  <2> QED BY <2>1, ForgetKeeps DEF TypeOK
<1>3. \A c \in Claims : ~Due(c, k)'
  BY <1>1 DEF Due, Live, TypeOK
<1>4. ASSUME NEW c \in Claims, NEW l \in Clients, l # k, Due(c, l)'
      PROVE  Owed(c, l)'
  <2>1. client'[l] = client[l] /\ profile'[l] = profile[l] /\ status'[<<c, l>>] = status[<<c, l>>]
    BY <1>1, <1>4 DEF TypeOK, DeleteAlerts, Alerts
  <2>2. Owed(c, l)
    BY <1>1, <1>4, <2>1 DEF Due, Live, Match, MatchesAreOwed
  <2>3. Settled(c, l) => Settled(c, l)'
    BY <1>1, <2>1 DEF Settled
  <2>4. \A i \in Ingesters : OwedByIngester(i, c, l) => OwedByIngester(i, c, l)'
    BY <1>1, <2>1, StillOwedByIngester
  <2>5. \A e \in Editors : OwedByEditor(e, c, l) => OwedByEditor(e, c, l)'
    BY <1>2, <2>1, StillOwedByEditor
  <2> QED BY <2>2, <2>3, <2>4, <2>5 DEF Owed
<1> QED BY <1>3, <1>4 DEF MatchesAreOwed

-----------------------------------------------------------------------------
(* Analysts, the crash, and the theorem. *)

LEMMA TriageOwes ==
  ASSUME TypeOK, MatchesAreOwed, Triage
  PROVE  MatchesAreOwed'
<1> USE DEF clientVars, claimVars
<1>1. UNCHANGED <<client, profile, terms, ingester, editor, lost>>
  BY DEF Triage, UpdateAlert, FalsePositive, SaveRecord
<1>2. \A al \in Alerts : status[al] # "none" => status'[al] # "none"
  BY DEF Triage, UpdateAlert, FalsePositive, SaveRecord, TypeOK
<1>3. \A c \in Claims, k \in Clients : /\ Due(c, k)' <=> Due(c, k)
                                       /\ Settled(c, k) => Settled(c, k)'
  BY <1>1, <1>2 DEF Due, Live, Match, Settled, Alerts
<1>4. \A c \in Claims, k \in Clients, i \in Ingesters :
        OwedByIngester(i, c, k) => OwedByIngester(i, c, k)'
  BY <1>1, StillOwedByIngester
<1>5. \A c \in Claims, k \in Clients, e \in Editors :
        OwedByEditor(e, c, k) => OwedByEditor(e, c, k)'
  BY <1>1, StillOwedByEditor
<1> QED BY <1>3, <1>4, <1>5 DEF MatchesAreOwed, Owed

\* A crash gives up all that was owed.
LEMMA CrashOwes ==
  ASSUME TypeOK, PlansAreStored, MatchesAreOwed, Crash
  PROVE  MatchesAreOwed'
<1> USE DEF clientVars, claimVars, deskVars
<1>1. UNCHANGED <<client, profile, terms, status>>
  BY DEF Crash
<1>2. /\ lost \subseteq lost'
      /\ \A c \in Claims, k \in Clients :
           \/ \E i \in Ingesters : c \in ingester[i].fresh
           \/ \E e \in Editors : /\ editor[e].pc \in {"client", "claims", "raise"}
                                 /\ editor[e].client = k
           => <<c, k>> \in lost'
  BY DEF Crash, Alerts
<1> SUFFICES ASSUME NEW c \in Claims, NEW k \in Clients, Due(c, k)'
             PROVE  Settled(c, k)'
  BY DEF MatchesAreOwed, Owed
<1>3. Owed(c, k)
  BY <1>1 DEF Due, Live, Match, MatchesAreOwed
<1>4. CASE Settled(c, k)
  BY <1>1, <1>2, <1>4 DEF Settled
<1>5. ASSUME NEW i \in Ingesters, OwedByIngester(i, c, k) PROVE Settled(c, k)'
  BY <1>2, <1>5 DEF OwedByIngester, Settled
<1>6. ASSUME NEW e \in Editors, OwedByEditor(e, c, k) PROVE Settled(c, k)'
  <2>1. editor[e].client = k
    BY <1>6 DEF OwedByEditor
  <2>2. editor[e].pc \in {"client", "claims", "raise"}
    BY <1>6, NothingOwed
  <2> QED BY <1>2, <2>1, <2>2 DEF Settled
<1> QED BY <1>3, <1>4, <1>5, <1>6 DEF Owed

LEMMA OwedInit == Init => MatchesAreOwed
BY DEF Init, MatchesAreOwed, Due, Match

LEMMA OwedNext ==
  ASSUME TypeOK, PlansAreStored, MatchesAreOwed, [Next]_vars
  PROVE  MatchesAreOwed'
<1>1. CASE UNCHANGED vars
  BY <1>1 DEF vars, MatchesAreOwed, Due, Live, Match, Owed, Settled, OwedByIngester,
              OwedByEditor
<1>2. ASSUME NEW i \in Ingesters, Ingest(i) PROVE MatchesAreOwed'
  BY <1>2, IngestOwes
<1>3. ASSUME NEW e \in Editors, Edit(e) PROVE MatchesAreOwed'
  BY <1>3, EditOwes
<1>4. ASSUME NEW k \in Clients, DeleteClient(k) PROVE MatchesAreOwed'
  BY <1>4, DeleteOwes
<1> QED BY <1>1, <1>2, <1>3, <1>4, CollectOwes, TriageOwes, CrashOwes DEF Next

LEMMA OwedIsAwaited ==
  MatchesAreOwed /\ PlansAreStored => NoMatchIsForgotten
<1> SUFFICES ASSUME MatchesAreOwed, NEW c \in Claims, NEW k \in Clients, Due(c, k)
             PROVE  status[<<c, k>>] # "none" \/ Awaited(c, k) \/ <<c, k>> \in lost
  BY DEF NoMatchIsForgotten, Due
<1>1. Owed(c, k)
  BY DEF MatchesAreOwed
<1>2. ASSUME NEW i \in Ingesters, OwedByIngester(i, c, k) PROVE Awaited(c, k)
  BY <1>2 DEF OwedByIngester, Awaited
<1>3. ASSUME NEW e \in Editors, OwedByEditor(e, c, k) PROVE Awaited(c, k)
  BY <1>3 DEF OwedByEditor, Awaited
<1> QED BY <1>1, <1>2, <1>3 DEF Owed, Settled

\* Ingestion and edits that overlap miss no match between them: each match of a
\* stored claim and a live client has its alert, or a thread will write it, or
\* it was given up in one of the four ways of the code.
THEOREM NoneForgotten == Spec => []NoMatchIsForgotten
<1>1. Init => TypeOK /\ PlansAreStored /\ MatchesAreOwed
  BY TypeInit, PlansInit, OwedInit
<1>2. TypeOK /\ PlansAreStored /\ MatchesAreOwed /\ [Next]_vars
        => (TypeOK /\ PlansAreStored /\ MatchesAreOwed)'
  BY TypeNext, PlansNext, OwedNext
<1> QED BY <1>1, <1>2, OwedIsAwaited, PTL DEF Spec
=============================================================================
