-------------------------- MODULE AlertDeskProofs --------------------------
(***************************************************************************)
(* What holds of the alert desk for any number of claims, clients, records *)
(* and threads.                                                            *)
(***************************************************************************)
EXTENDS AlertDesk, TLAPS

-----------------------------------------------------------------------------
(* Types. *)

LEMMA IdleIngesterType == IdleIngester \in IngesterRecord
BY DEF IdleIngester, IngesterRecord, IngesterFields

LEMMA IdleEditorType == IdleEditor \in EditorRecord
BY DEF IdleEditor, EditorRecord, EditorFields

\* What Continue makes of an ingester is one.
LEMMA ContinueType ==
  ASSUME NEW me \in IngesterRecord, me.pc \in {"list", "raise"}
  PROVE  Continue(me) \in IngesterRecord
<1>1. [me EXCEPT !.pc = "raise"] \in IngesterRecord
  BY DEF IngesterRecord, IngesterFields
<1>2. [me EXCEPT !.pc = "match", !.fresh = @ \ {me.claim}, !.claim = NoClaim,
                 !.copy = {}] \in IngesterRecord
  BY DEF IngesterRecord, IngesterFields
<1> QED BY <1>1, <1>2, IdleIngesterType DEF Continue

\* An editor that forgets alerts stays an editor.
LEMMA ForgetType ==
  ASSUME NEW ed \in EditorRecord, NEW gone
  PROVE  Forget(ed, gone) \in EditorRecord
BY DEF Forget, EditorRecord, EditorFields

\* The three ways rows of alerts change.
LEMMA DeskTypes ==
  ASSUME TypeOK
  PROVE  /\ \A al \in Alerts, shared \in SUBSET Terms :
              RaiseAlert(al, shared) =>
                /\ status' \in [Alerts -> {"none", "new", "reviewed"}]
                /\ basis' \in [Alerts -> SUBSET Terms]
         /\ \A gone : DeleteAlerts(gone) =>
                /\ status' \in [Alerts -> {"none", "new", "reviewed"}]
                /\ basis' \in [Alerts -> SUBSET Terms]
BY DEF TypeOK, RaiseAlert, DeleteAlerts

LEMMA TypeInit == Init => TypeOK
BY IdleIngesterType, IdleEditorType DEF Init, TypeOK

\* A step of a thread that ingests.
LEMMA IngestType ==
  ASSUME TypeOK, NEW i \in Ingesters, Ingest(i)
  PROVE  TypeOK'
<1> DEFINE me == ingester[i]
<1> USE DEF TypeOK, clientVars, claimVars, deskVars
<1>m. me \in IngesterRecord
  OBVIOUS
<1>1. ASSUME NEW batch \in SUBSET Payloads, Lookup(i, batch) PROVE TypeOK'
  <2> DEFINE missing == {ClaimOf[p] : p \in batch} \ {c \in Claims : Stored(c)}
  <2>1. missing \subseteq Claims
    BY PayloadsAssumption
  <2>2. \A pc \in {"merge", "insert"} :
          [IdleIngester EXCEPT !.pc = pc, !.batch = batch, !.todo = batch,
                               !.fresh = missing] \in IngesterRecord
    BY <2>1 DEF IdleIngester, IngesterRecord, IngesterFields
  <2> QED BY <1>1, <2>2 DEF Lookup
<1>2. CASE PostInsert(i)
  <2>1. [me EXCEPT !.pc = "observe"] \in IngesterRecord
    BY <1>m DEF IngesterRecord, IngesterFields
  <2>2. me.batch \subseteq Payloads
    BY <1>m DEF IngesterRecord, IngesterFields
  <2> QED BY <1>2, <2>1, <2>2, IdleIngesterType, PayloadsAssumption DEF PostInsert
<1>3. CASE MergeRead(i)
  <2>1. me.batch \subseteq Payloads
    BY <1>m DEF IngesterRecord, IngesterFields
  <2>2. \A p \in me.batch :
          [me EXCEPT !.pc = "write", !.claim = ClaimOf[p],
                     !.copy = terms[ClaimOf[p]]] \in IngesterRecord
    BY <1>m, <2>1, PayloadsAssumption DEF IngesterRecord, IngesterFields
  <2> QED BY <1>3, <2>2 DEF MergeRead
<1>4. CASE MergeWrite(i)
  <2>1. [me EXCEPT !.pc = "observe", !.claim = NoClaim, !.copy = {}] \in IngesterRecord
    BY <1>m DEF IngesterRecord, IngesterFields
  <2>2. me.batch \subseteq Payloads /\ me.copy \subseteq Terms
    BY <1>m DEF IngesterRecord, IngesterFields
  <2>3. terms' \in [Claims -> SUBSET Terms]
    BY <1>4, <2>2, PayloadsAssumption DEF MergeWrite
  <2> QED BY <1>4, <2>1, <2>3 DEF MergeWrite
<1>5. CASE Observe(i)
  <2>1. me.todo \subseteq Payloads
    BY <1>m DEF IngesterRecord, IngesterFields
  <2>2. /\ \A p : [me EXCEPT !.todo = @ \ {p}] \in IngesterRecord
        /\ [me EXCEPT !.pc = "match", !.todo = {}] \in IngesterRecord
    BY <1>m DEF IngesterRecord, IngesterFields
  <2>3. UNION {Matches(c) : c \in me.fresh} \subseteq Alerts
    BY <1>m DEF IngesterRecord, IngesterFields, Matches, Alerts
  <2>4. PICK p \in me.todo :
          IF p \notin archived /\ ClaimOf[p] \in me.phantom
          THEN Abort(i) /\ UNCHANGED archived
          ELSE /\ archived' = archived \cup {p}
               /\ ingester' = [ingester EXCEPT ![i] =
                    IF me.todo # {p} THEN [me EXCEPT !.todo = @ \ {p}]
                    ELSE IF me.fresh = {} THEN IdleIngester
                    ELSE [me EXCEPT !.pc = "match", !.todo = {}]]
               /\ UNCHANGED lost
    BY <1>5 DEF Observe
  <2>5. ingester' \in [Ingesters -> IngesterRecord]
    BY <2>2, <2>4, IdleIngesterType DEF Abort
  <2>6. archived' \subseteq Payloads /\ lost' \subseteq Alerts
    BY <2>1, <2>3, <2>4 DEF Abort
  <2> QED BY <1>5, <2>5, <2>6 DEF Observe
<1>6. CASE ReadClaim(i)
  <2>1. me.fresh \subseteq Claims
    BY <1>m DEF IngesterRecord, IngesterFields
  <2>2. \A c \in me.fresh :
          [me EXCEPT !.pc = "list", !.claim = c, !.copy = terms[c]] \in IngesterRecord
    BY <1>m, <2>1 DEF IngesterRecord, IngesterFields
  <2> QED BY <1>6, <2>2 DEF ReadClaim
<1>7. CASE ListClients(i)
  <2> DEFINE hits == [k \in Clients |-> IF Live(k) THEN Match(me.copy, profile[k]) ELSE {}]
  <2>1. hits \in [Clients -> SUBSET Terms]
    BY <1>m DEF IngesterRecord, IngesterFields, Match
  <2>2. [me EXCEPT !.hits = hits] \in IngesterRecord
    BY <1>m, <2>1 DEF IngesterRecord, IngesterFields
  <2>3. Continue([me EXCEPT !.hits = hits]) \in IngesterRecord
    <3>1. [me EXCEPT !.hits = hits].pc = "list"
      BY <1>7, <1>m DEF ListClients, IngesterRecord, IngesterFields
    <3> HIDE DEF hits, me
    <3> QED BY <3>1, <2>2, ContinueType
  <2> QED BY <1>7, <2>3 DEF ListClients
<1>8. CASE MatchClaim(i)
  <2>1. PICK k \in Clients :
          /\ me.hits[k] # {}
          /\ IF ClientKeyHolds(k)
             THEN /\ RaiseAlert(<<me.claim, k>>, me.hits[k])
                  /\ ingester' = [ingester EXCEPT ![i] = Continue([me EXCEPT !.hits[k] = {}])]
                  /\ UNCHANGED lost
             ELSE Abort(i) /\ UNCHANGED <<status, basis>>
    BY <1>8 DEF MatchClaim
  <2>2. [me EXCEPT !.hits[k] = {}] \in IngesterRecord
    BY <1>m DEF IngesterRecord, IngesterFields
  <2>3. Continue([me EXCEPT !.hits[k] = {}]) \in IngesterRecord
    <3>1. [me EXCEPT !.hits[k] = {}].pc = "raise"
      BY <1>8, <1>m DEF MatchClaim, IngesterRecord, IngesterFields
    <3> HIDE DEF me
    <3> QED BY <3>1, <2>2, ContinueType
  <2>4. UNION {Matches(c) : c \in me.fresh} \subseteq Alerts
    BY <1>m DEF IngesterRecord, IngesterFields, Matches, Alerts
  <2>5. ingester' \in [Ingesters -> IngesterRecord] /\ lost' \subseteq Alerts
    BY <2>1, <2>3, <2>4, IdleIngesterType DEF Abort
  <2>6. /\ status' \in [Alerts -> {"none", "new", "reviewed"}]
        /\ basis' \in [Alerts -> SUBSET Terms]
    <3>1. me.hits[k] \subseteq Terms
      BY <1>m DEF IngesterRecord, IngesterFields
    <3> QED BY <2>1, <3>1 DEF RaiseAlert
  <2> QED BY <1>8, <2>5, <2>6 DEF MatchClaim
<1> QED BY <1>1, <1>2, <1>3, <1>4, <1>5, <1>6, <1>7, <1>8 DEF Ingest

LEMMA CollectType ==
  ASSUME TypeOK, CollectInsert
  PROVE  TypeOK'
<1> DEFINE me == ingester[Collector]
           mine == {c \in me.fresh : ~Stored(c)}
<1> USE DEF TypeOK, clientVars, deskVars
<1>1. Collector \in Ingesters /\ me \in IngesterRecord
  BY DEF Ingesters
<1>2. me.batch \subseteq Payloads /\ me.fresh \subseteq Claims
  BY <1>1 DEF IngesterRecord, IngesterFields
<1>3. [me EXCEPT !.pc = "merge", !.fresh = mine, !.phantom = me.fresh \ mine]
        \in IngesterRecord
  BY <1>1, <1>2 DEF IngesterRecord, IngesterFields
<1>4. ingester' \in [Ingesters -> IngesterRecord]
  BY <1>1, <1>3 DEF CollectInsert
<1>5. terms' \in [Claims -> SUBSET Terms]
  <2>1. PICK first \in [mine -> me.batch] :
          terms' = [c \in Claims |-> IF c \in mine THEN TermsOf[first[c]] ELSE terms[c]]
    BY DEF CollectInsert
  <2> QED BY <2>1, <1>2, PayloadsAssumption
<1> QED BY <1>4, <1>5 DEF CollectInsert

\* A step of a thread that edits a client.
LEMMA EditType ==
  ASSUME TypeOK, NEW e \in Editors, Edit(e)
  PROVE  TypeOK'
<1> DEFINE me == editor[e]
<1> USE DEF TypeOK, clientVars, claimVars, deskVars
<1>m. me \in EditorRecord
  OBVIOUS
<1>1. ASSUME NEW k \in Clients, NEW watched \in Profiles,
             CreateClient(e, k, watched) \/ UpdateClient(e, k, watched)
      PROVE  TypeOK'
  <2>1. [me EXCEPT !.pc = "client", !.client = k] \in EditorRecord
    BY <1>m DEF EditorRecord, EditorFields
  <2>2. watched \in SUBSET Terms
    BY InputsAssumption
  <2>3. SaveClient(e, k, watched)
    BY <1>1 DEF CreateClient, UpdateClient
  <2>4. editor' = [editor EXCEPT ![e] = [me EXCEPT !.pc = "client", !.client = k]]
    BY <2>3 DEF SaveClient
  <2>5. editor' \in [Editors -> EditorRecord]
    BY <2>1, <2>4
  <2>6. /\ client' \in [Clients -> {"none", "live", "deleted"}]
        /\ profile' \in [Clients -> SUBSET Terms]
    BY <2>2, <2>3 DEF SaveClient
  <2> QED BY <2>3, <2>5, <2>6 DEF SaveClient
<1>2. CASE RematchClient(e)
  <2>1. me.client \in Clients
    BY <1>2, <1>m DEF RematchClient, EditorAt, EditorRecord
  <2>2. Live(me.client)
          => [me EXCEPT !.pc = "claims", !.copy = profile[me.client]] \in EditorRecord
    BY <1>m, <2>1 DEF EditorRecord, EditorFields
  <2>3. editor' \in [Editors -> EditorRecord]
    <3>1. CASE Live(me.client)
      <4>1. editor' = [editor EXCEPT ![e] =
                         [me EXCEPT !.pc = "claims", !.copy = profile[me.client]]]
        BY <1>2, <3>1 DEF RematchClient
      <4> QED BY <4>1, <3>1, <2>2
    <3>2. CASE ~Live(me.client)
      BY <1>2, <3>2, IdleEditorType DEF RematchClient
    <3> QED BY <3>1, <3>2
  <2> QED BY <1>2, <2>3 DEF RematchClient
<1>3. CASE RematchClaims(e)
  <2>0. me.client \in Clients
    BY <1>3, <1>m DEF RematchClaims, EditorAt, EditorRecord
  <2> DEFINE hits == [c \in Claims |-> Match(terms[c], me.copy)]
             matched == {c \in Claims : hits[c] # {}}
  <2>1. hits \in [Claims -> SUBSET Terms]
    BY DEF Match
  <2>2. \A pc \in {"select", "raise"} :
          [me EXCEPT !.pc = pc, !.hits = hits, !.matched = matched] \in EditorRecord
    BY <1>m, <2>0, <2>1 DEF EditorRecord, EditorFields
  <2> QED BY <1>3, <2>2 DEF RematchClaims
<1>4. CASE RematchClaim(e)
  <2>0. me.client \in Clients
    BY <1>4, <1>m DEF RematchClaim, EditorAt, EditorRecord
  <2>1. PICK c \in Claims :
          /\ me.hits[c] # {}
          /\ IF ClientKeyHolds(me.client)
             THEN /\ RaiseAlert(<<c, me.client>>, me.hits[c])
                  /\ editor' = [editor EXCEPT ![e].hits[c] = {},
                       ![e].pc = IF \E d \in Claims \ {c} : me.hits[d] # {}
                                 THEN "raise" ELSE "select"]
             ELSE /\ editor' = [editor EXCEPT ![e] = IdleEditor]
                  /\ UNCHANGED <<status, basis>>
    BY <1>4 DEF RematchClaim
  <2>2. \A pc \in {"select", "raise"} :
          [me EXCEPT !.hits[c] = {}, !.pc = pc] \in EditorRecord
    BY <1>m, <2>0 DEF EditorRecord, EditorFields
  <2>3. editor' \in [Editors -> EditorRecord]
    BY <2>1, <2>2, IdleEditorType
  <2>4. /\ status' \in [Alerts -> {"none", "new", "reviewed"}]
        /\ basis' \in [Alerts -> SUBSET Terms]
    <3>1. me.hits[c] \subseteq Terms
      BY <1>m DEF EditorRecord, EditorFields
    <3> QED BY <2>1, <3>1 DEF RaiseAlert
  <2> QED BY <1>4, <2>3, <2>4 DEF RematchClaim
<1>5. CASE CleanupSelect(e)
  <2>0. me.client \in Clients
    BY <1>5, <1>m DEF CleanupSelect, EditorAt, EditorRecord
  <2>1. [me EXCEPT !.pc = "check", !.candidates =
           {c \in Claims \ me.matched : status[<<c, me.client>>] = "new"}] \in EditorRecord
    BY <1>m, <2>0 DEF EditorRecord, EditorFields
  <2> QED BY <1>5, <2>1, IdleEditorType DEF CleanupSelect
<1>6. CASE CleanupCheck(e)
  <2>0. me.client \in Clients
    BY <1>6, <1>m DEF CleanupCheck, EditorAt, EditorRecord
  <2>1. me.candidates \subseteq Claims
    BY <1>m DEF EditorRecord, EditorFields
  <2>2. \A c \in me.candidates :
          /\ [me EXCEPT !.candidates = @ \ {c}] \in EditorRecord
          /\ [me EXCEPT !.pc = "delete", !.candidates = @ \ {c}, !.doomed = {c}]
               \in EditorRecord
    BY <1>m, <2>0, <2>1 DEF EditorRecord, EditorFields
  <2> QED BY <1>6, <2>2, IdleEditorType DEF CleanupCheck
<1>7. CASE CleanupDelete(e)
  <2>0. me.client \in Clients
    BY <1>7, <1>m DEF CleanupDelete, EditorAt, EditorRecord
  <2> DEFINE gone == (me.doomed \cup {c \in me.candidates : <<c, me.client>> \notin records})
                       \X {me.client}
             idle == [editor EXCEPT ![e] = IdleEditor]
  <2>1. idle \in [Editors -> EditorRecord]
    BY IdleEditorType
  <2>2. CASE gone \cap records # {}
    BY <1>7, <2>1, <2>2 DEF CleanupDelete
  <2>3. CASE gone \cap records = {}
    <3>1. /\ DeleteAlerts(gone)
          /\ editor' = [f \in Editors |-> Forget(idle[f], gone)]
          /\ lost' = lost \cup gone
      BY <1>7, <2>3 DEF CleanupDelete
    <3>2. editor' \in [Editors -> EditorRecord]
      BY <3>1, <2>1, ForgetType
    <3>3. gone \subseteq Alerts
      BY <1>m, <2>0 DEF EditorRecord, EditorFields, Alerts
    <3> QED BY <1>7, <3>1, <3>2, <3>3 DEF CleanupDelete, DeleteAlerts
  <2> QED BY <2>2, <2>3
<1> QED BY <1>1, <1>2, <1>3, <1>4, <1>5, <1>6, <1>7 DEF Edit

LEMMA OthersType ==
  ASSUME TypeOK, (\E k \in Clients : DeleteClient(k)) \/ Triage \/ Crash
  PROVE  TypeOK'
<1> USE DEF TypeOK, clientVars, claimVars, deskVars
<1>1. ASSUME NEW k \in Clients, DeleteClient(k) PROVE TypeOK'
  <2>1. editor' \in [Editors -> EditorRecord]
    BY <1>1, ForgetType DEF DeleteClient
  <2> QED BY <1>1, <2>1 DEF DeleteClient, DeleteAlerts, Alerts
<1>2. CASE Triage
  BY <1>2 DEF Triage, UpdateAlert, FalsePositive, SaveRecord
<1>3. CASE Crash
  BY <1>3, IdleIngesterType, IdleEditorType DEF Crash
<1> QED BY <1>1, <1>2, <1>3

LEMMA TypeNext == TypeOK /\ [Next]_vars => TypeOK'
<1> SUFFICES ASSUME TypeOK, [Next]_vars PROVE TypeOK'
  OBVIOUS
<1>1. CASE UNCHANGED vars
  BY <1>1 DEF vars, TypeOK
<1>2. CASE Next
  BY <1>2, IngestType, CollectType, EditType, OthersType DEF Next
<1> QED BY <1>1, <1>2

\* Every reachable state is well formed.
THEOREM DeskTypeCorrect == Spec => []TypeOK
BY TypeInit, TypeNext, PTL DEF Spec

-----------------------------------------------------------------------------
(* No orphans. *)

\* A claim never loses its row or its last term: a merge that overwrites
\* another one's terms still writes the terms of a record.
LEMMA StoredStays ==
  ASSUME TypeOK, [Next]_vars
  PROVE  \A c \in Claims : Stored(c) => Stored(c)'
<1> USE DEF TypeOK, clientVars, claimVars, deskVars, Stored
<1>1. CASE UNCHANGED vars
  BY <1>1 DEF vars
<1>2. ASSUME NEW i \in Ingesters, Ingest(i)
      PROVE  \A c \in Claims : Stored(c) => Stored(c)'
  <2>1. CASE PostInsert(i)
    <3>1. ingester[i].batch \subseteq Payloads
      BY DEF IngesterRecord, IngesterFields
    <3> QED BY <2>1, <3>1, PayloadsAssumption DEF PostInsert
  <2>2. CASE MergeWrite(i)
    BY <2>2 DEF MergeWrite
  <2>3. CASE ~PostInsert(i) /\ ~MergeWrite(i)
    BY <1>2, <2>3 DEF Ingest, Lookup, MergeRead, Observe, ReadClaim, ListClients,
                      MatchClaim
  <2> QED BY <2>1, <2>2, <2>3
<1>3. CASE CollectInsert
  BY <1>3 DEF CollectInsert
<1>4. ASSUME NEW e \in Editors, Edit(e) PROVE UNCHANGED terms
  BY <1>4 DEF Edit, CreateClient, UpdateClient, SaveClient, RematchClient,
              RematchClaims, RematchClaim, CleanupSelect, CleanupCheck,
              CleanupDelete
<1>5. ASSUME (\E k \in Clients : DeleteClient(k)) \/ Triage \/ Crash
      PROVE  UNCHANGED terms
  BY <1>5 DEF DeleteClient, Triage, UpdateAlert, FalsePositive, SaveRecord, Crash
<1> QED BY <1>1, <1>2, <1>3, <1>4, <1>5 DEF Next

\* What a thread that ingests, and one that edits, is about to raise alerts
\* for is stored.
IngesterPlan(i) ==
  /\ ingester[i].pc \notin {"idle", "insert"} => \A c \in ingester[i].fresh : Stored(c)
  /\ ingester[i].pc = "insert" /\ i # Collector
       => \E p \in Payloads : ingester[i].batch = {p} /\ ingester[i].fresh = {ClaimOf[p]}

EditorPlan(e) ==
  \A c \in Claims : editor[e].hits[c] # {} => editor[e].pc = "raise" /\ Stored(c)

PlansAreStored ==
  /\ \A i \in Ingesters : IngesterPlan(i)
  /\ \A e \in Editors : EditorPlan(e)

LEMMA PlansInit == Init => PlansAreStored
BY DEF Init, PlansAreStored, IngesterPlan, EditorPlan, IdleIngester, IdleEditor

\* An ingester that moves on keeps to what it has inserted.
LEMMA ContinueKeeps ==
  ASSUME NEW me \in IngesterRecord
  PROVE  /\ Continue(me).fresh \subseteq me.fresh
         /\ Continue(me).pc \in {"idle", "match", "raise"}
         /\ Continue(me).pc = "idle" => Continue(me) = IdleIngester
<1>1. CASE \E k \in Clients : me.hits[k] # {}
  BY <1>1 DEF Continue, IngesterRecord, IngesterFields
<1>2. CASE ~(\E k \in Clients : me.hits[k] # {}) /\ me.fresh = {me.claim}
  BY <1>2 DEF Continue, IdleIngester
<1>3. CASE ~(\E k \in Clients : me.hits[k] # {}) /\ me.fresh # {me.claim}
  BY <1>3 DEF Continue, IngesterRecord, IngesterFields
<1> QED BY <1>1, <1>2, <1>3

LEMMA IngestPlan ==
  ASSUME TypeOK, NEW i \in Ingesters, IngesterPlan(i), Ingest(i),
         \A c \in Claims : Stored(c) => Stored(c)'
  PROVE  IngesterPlan(i)'
<1> DEFINE me == ingester[i]
<1>m. me \in IngesterRecord /\ me.fresh \subseteq Claims
  BY DEF TypeOK, IngesterRecord, IngesterFields
<1>t. ingester \in [Ingesters -> IngesterRecord]
  BY DEF TypeOK
<1>i. ingester'[i] = IdleIngester => IngesterPlan(i)'
  BY DEF IngesterPlan, IdleIngester
<1>k. me.pc \notin {"idle", "insert"} /\ ingester'[i].pc # "insert"
        /\ ingester'[i].fresh \subseteq me.fresh => IngesterPlan(i)'
  BY <1>m DEF IngesterPlan
<1> USE DEF IngesterAt
<1>1. ASSUME NEW batch \in SUBSET Payloads, Lookup(i, batch) PROVE IngesterPlan(i)'
  <2> DEFINE missing == {ClaimOf[p] : p \in batch} \ {c \in Claims : Stored(c)}
  <2>1. ingester'[i] = [IdleIngester EXCEPT
           !.pc = IF missing = {} THEN "merge" ELSE "insert",
           !.batch = batch, !.todo = batch, !.fresh = missing]
    BY <1>1, <1>t DEF Lookup
  <2>2. i # Collector => \E p \in Payloads : batch = {p}
    BY <1>1, InputsAssumption DEF Lookup
  <2>3. /\ ingester'[i].pc = IF missing = {} THEN "merge" ELSE "insert"
        /\ ingester'[i].batch = batch
        /\ ingester'[i].fresh = missing
    BY <2>1 DEF IdleIngester
  <2>4. \A p \in Payloads : batch = {p} /\ missing # {} => missing = {ClaimOf[p]}
    OBVIOUS
  <2> QED BY <2>2, <2>3, <2>4 DEF IngesterPlan
<1>2. CASE PostInsert(i)
  <2>1. PICK p \in Payloads : me.batch = {p} /\ me.fresh = {ClaimOf[p]}
    BY <1>2 DEF PostInsert, IngesterPlan
  <2>2. CASE Stored(ClaimOf[p])
    BY <1>2, <1>t, <1>i, <2>1, <2>2 DEF PostInsert
  <2>3. CASE ~Stored(ClaimOf[p])
    <3>1. /\ ingester' = [ingester EXCEPT ![i].pc = "observe"]
          /\ terms' = [terms EXCEPT ![ClaimOf[p]] = TermsOf[p]]
      BY <1>2, <2>1, <2>3 DEF PostInsert
    <3>2. ingester'[i].pc = "observe" /\ ingester'[i].fresh = {ClaimOf[p]}
      BY <3>1, <2>1, <1>t, <1>m DEF IngesterRecord, IngesterFields
    <3>3. Stored(ClaimOf[p])'
      BY <3>1, PayloadsAssumption DEF Stored, TypeOK
    <3> QED BY <3>2, <3>3 DEF IngesterPlan
  <2> QED BY <2>2, <2>3
<1>3. CASE MergeRead(i)
  BY <1>3, <1>t, <1>m, <1>k DEF MergeRead, IngesterRecord, IngesterFields
<1>4. CASE MergeWrite(i)
  BY <1>4, <1>t, <1>m, <1>k DEF MergeWrite, IngesterRecord, IngesterFields
<1>5. CASE Observe(i)
  <2>1. PICK p \in me.todo :
          \/ ingester' = [ingester EXCEPT ![i] = IdleIngester]
          \/ ingester' = [ingester EXCEPT ![i] = [me EXCEPT !.todo = @ \ {p}]]
          \/ ingester' = [ingester EXCEPT ![i] = [me EXCEPT !.pc = "match", !.todo = {}]]
    BY <1>5 DEF Observe, Abort
  <2>2. me.pc = "observe"
    BY <1>5 DEF Observe
  <2>3. CASE ingester' = [ingester EXCEPT ![i] = IdleIngester]
    BY <2>3, <1>t, <1>i
  <2>4. CASE ingester' = [ingester EXCEPT ![i] = [me EXCEPT !.todo = @ \ {p}]]
    BY <2>2, <2>4, <1>t, <1>m, <1>k DEF IngesterRecord, IngesterFields
  <2>5. CASE ingester' = [ingester EXCEPT ![i] = [me EXCEPT !.pc = "match", !.todo = {}]]
    BY <2>2, <2>5, <1>t, <1>m, <1>k DEF IngesterRecord, IngesterFields
  <2> QED BY <2>1, <2>3, <2>4, <2>5
<1>6. CASE ReadClaim(i)
  BY <1>6, <1>t, <1>m, <1>k DEF ReadClaim, IngesterRecord, IngesterFields
<1>7. CASE ListClients(i)
  <2> DEFINE hits == [k \in Clients |-> IF Live(k) THEN Match(me.copy, profile[k]) ELSE {}]
             next == [me EXCEPT !.hits = hits]
  <2>1. me.pc = "list" /\ ingester'[i] = Continue(next)
    BY <1>7, <1>t DEF ListClients
  <2>2. next \in IngesterRecord /\ next.fresh = me.fresh
    BY <1>m DEF IngesterRecord, IngesterFields, Match, TypeOK
  <2> HIDE DEF next, hits
  <2> QED BY <2>1, <2>2, <1>k, ContinueKeeps
<1>8. CASE MatchClaim(i)
  <2>1. PICK k \in Clients :
          \/ ingester' = [ingester EXCEPT ![i] = IdleIngester]
          \/ ingester' = [ingester EXCEPT ![i] = Continue([me EXCEPT !.hits[k] = {}])]
    BY <1>8 DEF MatchClaim, Abort
  <2> DEFINE next == [me EXCEPT !.hits[k] = {}]
  <2>2. next \in IngesterRecord /\ next.fresh = me.fresh
    BY <1>m DEF IngesterRecord, IngesterFields
  <2>3. me.pc = "raise"
    BY <1>8 DEF MatchClaim
  <2>4. ingester'[i] = IdleIngester \/ ingester'[i] = Continue(next)
    BY <2>1, <1>t
  <2> HIDE DEF next
  <2> QED BY <2>2, <2>3, <2>4, <1>i, <1>k, ContinueKeeps
<1> QED BY <1>1, <1>2, <1>3, <1>4, <1>5, <1>6, <1>7, <1>8 DEF Ingest

\* Each thread writes its own record; only a deletion touches another's, and
\* only its clean-up.
LEMMA OthersStay ==
  /\ \A i, j \in Ingesters : Ingest(i) /\ j # i /\ TypeOK => ingester'[j] = ingester[j]
  /\ \A j \in Ingesters : CollectInsert /\ j # Collector /\ TypeOK
       => ingester'[j] = ingester[j]
  /\ \A i \in Ingesters : Ingest(i) => UNCHANGED editor
  /\ CollectInsert => UNCHANGED editor
  /\ \A e \in Editors : Edit(e) => UNCHANGED ingester
  /\ \A k \in Clients : DeleteClient(k) => UNCHANGED ingester
  /\ Triage => UNCHANGED <<ingester, editor>>
<1>1. ASSUME NEW i \in Ingesters, NEW j \in Ingesters, Ingest(i), j # i, TypeOK
      PROVE  ingester'[j] = ingester[j]
  BY <1>1 DEF Ingest, Lookup, PostInsert, MergeRead, MergeWrite, Observe, Abort,
              ReadClaim, ListClients, MatchClaim, TypeOK
<1>2. ASSUME NEW j \in Ingesters, CollectInsert, j # Collector, TypeOK
      PROVE  ingester'[j] = ingester[j]
  BY <1>2 DEF CollectInsert, TypeOK
<1>3. ASSUME NEW i \in Ingesters, Ingest(i) PROVE UNCHANGED editor
  BY <1>3 DEF Ingest, Lookup, PostInsert, MergeRead, MergeWrite, Observe,
              ReadClaim, ListClients, MatchClaim
<1>4. CollectInsert => UNCHANGED editor
  BY DEF CollectInsert
<1>5. ASSUME NEW e \in Editors, Edit(e) PROVE UNCHANGED ingester
  BY <1>5 DEF Edit, CreateClient, UpdateClient, SaveClient, RematchClient,
              RematchClaims, RematchClaim, CleanupSelect, CleanupCheck,
              CleanupDelete
<1>6. \A k \in Clients : DeleteClient(k) => UNCHANGED ingester
  BY DEF DeleteClient
<1>7. Triage => UNCHANGED <<ingester, editor>>
  BY DEF Triage, UpdateAlert, FalsePositive, SaveRecord
<1> QED BY <1>1, <1>2, <1>3, <1>4, <1>5, <1>6, <1>7

\* What Forget keeps of an editor.
LEMMA ForgetKeeps ==
  ASSUME NEW ed \in EditorRecord, NEW gone
  PROVE  /\ Forget(ed, gone).hits = ed.hits
         /\ Forget(ed, gone).pc = ed.pc
         /\ Forget(ed, gone).client = ed.client
         /\ Forget(ed, gone).copy = ed.copy
BY DEF Forget, EditorRecord, EditorFields

\* A step of editor e, for e and for any other editor.
LEMMA EditPlan ==
  ASSUME TypeOK, NEW e \in Editors, EditorPlan(e), Edit(e),
         \A c \in Claims : Stored(c) => Stored(c)'
  PROVE  /\ EditorPlan(e)'
         /\ \A f \in Editors \ {e} : /\ editor'[f].hits = editor[f].hits
                                     /\ editor'[f].pc = editor[f].pc
                                     /\ editor'[f].client = editor[f].client
                                     /\ editor'[f].copy = editor[f].copy
<1> DEFINE me == editor[e]
           Others == \A f \in Editors \ {e} : editor'[f] = editor[f]
           Same == editor'[e].hits = me.hits /\ (editor'[e].pc = me.pc \/ me.pc # "raise")
           Goal == /\ EditorPlan(e)'
                   /\ \A f \in Editors \ {e} : /\ editor'[f].hits = editor[f].hits
                                               /\ editor'[f].pc = editor[f].pc
                                               /\ editor'[f].client = editor[f].client
                                               /\ editor'[f].copy = editor[f].copy
<1>t. editor \in [Editors -> EditorRecord] /\ me \in EditorRecord
  BY DEF TypeOK
<1>i. editor'[e].hits = IdleEditor.hits => EditorPlan(e)'
  BY DEF EditorPlan, IdleEditor
<1>s. Same => EditorPlan(e)'
  BY DEF EditorPlan
<1>o. Others /\ EditorPlan(e)' => Goal
  OBVIOUS
<1> USE DEF EditorAt
<1> HIDE DEF Goal
<1>1. ASSUME NEW k \in Clients, NEW watched \in Profiles,
             CreateClient(e, k, watched) \/ UpdateClient(e, k, watched)
      PROVE  Goal
  <2>1. me.pc = "idle"
        /\ editor' = [editor EXCEPT ![e] = [me EXCEPT !.pc = "client", !.client = k]]
    BY <1>1 DEF CreateClient, UpdateClient, SaveClient
  <2>2. Same /\ Others
    BY <2>1, <1>t DEF EditorRecord, EditorFields
  <2> QED BY <2>2, <1>s, <1>o
<1>2. CASE RematchClient(e)
  <2>1. /\ me.pc = "client"
        /\ \/ editor' = [editor EXCEPT ![e] = IdleEditor]
           \/ editor' = [editor EXCEPT ![e] =
                [me EXCEPT !.pc = "claims", !.copy = profile[me.client]]]
    BY <1>2 DEF RematchClient
  <2>2. Others /\ (Same \/ editor'[e] = IdleEditor)
    BY <2>1, <1>t DEF EditorRecord, EditorFields
  <2> QED BY <2>2, <1>s, <1>o, <1>i
<1>3. CASE RematchClaims(e)
  <2> DEFINE hits == [c \in Claims |-> Match(terms[c], me.copy)]
             matched == {c \in Claims : hits[c] # {}}
  <2>1. editor' = [editor EXCEPT ![e] =
          [me EXCEPT !.pc = IF matched = {} THEN "select" ELSE "raise",
                     !.hits = hits, !.matched = matched]]
    BY <1>3 DEF RematchClaims
  <2>2. /\ Others
        /\ editor'[e].hits = hits
        /\ editor'[e].pc = IF matched = {} THEN "select" ELSE "raise"
    BY <2>1, <1>t DEF EditorRecord, EditorFields
  <2>3. \A c \in Claims : hits[c] # {} => Stored(c)' /\ matched # {}
    BY DEF Match, Stored
  <2>4. EditorPlan(e)'
    BY <2>2, <2>3 DEF EditorPlan
  <2> QED BY <2>2, <2>4, <1>o
<1>4. CASE RematchClaim(e)
  <2>1. PICK c \in Claims :
          \/ editor' = [editor EXCEPT ![e] = IdleEditor]
          \/ editor' = [editor EXCEPT ![e] = [me EXCEPT !.hits[c] = {},
               !.pc = IF \E d \in Claims \ {c} : me.hits[d] # {}
                      THEN "raise" ELSE "select"]]
    BY <1>4 DEF RematchClaim
  <2>2. Others
    BY <2>1, <1>t
  <2>3. CASE editor' = [editor EXCEPT ![e] = IdleEditor]
    BY <2>2, <2>3, <1>t, <1>i, <1>o
  <2>4. CASE editor' = [editor EXCEPT ![e] = [me EXCEPT !.hits[c] = {},
               !.pc = IF \E d \in Claims \ {c} : me.hits[d] # {}
                      THEN "raise" ELSE "select"]]
    <3>1. /\ editor'[e].hits = [me.hits EXCEPT ![c] = {}]
          /\ editor'[e].pc = IF \E d \in Claims \ {c} : me.hits[d] # {}
                             THEN "raise" ELSE "select"
          /\ me.hits \in [Claims -> SUBSET Terms]
      BY <2>4, <1>t DEF EditorRecord, EditorFields
    <3>2. EditorPlan(e)'
      BY <3>1 DEF EditorPlan
    <3> QED BY <3>2, <2>2, <1>o
  <2> QED BY <2>1, <2>3, <2>4
<1>5. CASE CleanupSelect(e)
  <2>1. /\ me.pc = "select"
        /\ \/ editor' = [editor EXCEPT ![e] = IdleEditor]
           \/ editor' = [editor EXCEPT ![e] = [me EXCEPT !.pc = "check",
                !.candidates = {c \in Claims \ me.matched : status[<<c, me.client>>] = "new"}]]
    BY <1>5 DEF CleanupSelect
  <2>2. Others /\ (Same \/ editor'[e] = IdleEditor)
    BY <2>1, <1>t DEF EditorRecord, EditorFields
  <2> QED BY <2>2, <1>s, <1>o, <1>i
<1>6. CASE CleanupCheck(e)
  <2>1. /\ me.pc = "check"
        /\ \/ editor' = [editor EXCEPT ![e] = IdleEditor]
           \/ \E c \in me.candidates :
                \/ editor' = [editor EXCEPT ![e] = [me EXCEPT !.candidates = @ \ {c}]]
                \/ editor' = [editor EXCEPT ![e] = [me EXCEPT !.pc = "delete",
                                !.candidates = @ \ {c}, !.doomed = {c}]]
    BY <1>6 DEF CleanupCheck
  <2>2. Others
    BY <2>1, <1>t
  <2>3. CASE editor' = [editor EXCEPT ![e] = IdleEditor]
    BY <2>2, <2>3, <1>t, <1>o, <1>i
  <2>4. ASSUME NEW c \in me.candidates,
               editor' = [editor EXCEPT ![e] = [me EXCEPT !.candidates = @ \ {c}]]
        PROVE  Same
    BY <2>4, <1>t DEF EditorRecord, EditorFields
  <2>5. ASSUME NEW c \in me.candidates,
               editor' = [editor EXCEPT ![e] = [me EXCEPT !.pc = "delete",
                            !.candidates = @ \ {c}, !.doomed = {c}]]
        PROVE  Same
    BY <2>1, <2>5, <1>t DEF EditorRecord, EditorFields
  <2> QED BY <2>1, <2>2, <2>3, <2>4, <2>5, <1>s, <1>o
<1>7. CASE CleanupDelete(e)
  <2> DEFINE idle == [editor EXCEPT ![e] = IdleEditor]
             gone == (me.doomed \cup {c \in me.candidates : <<c, me.client>> \notin records})
                       \X {me.client}
  <2>1. \/ editor' = idle
        \/ editor' = [f \in Editors |-> Forget(idle[f], gone)]
    BY <1>7 DEF CleanupDelete
  <2> HIDE DEF gone
  <2>2. idle \in [Editors -> EditorRecord] /\ idle[e] = IdleEditor
        /\ \A f \in Editors \ {e} : idle[f] = editor[f]
    BY <1>t, IdleEditorType
  <2> HIDE DEF idle
  <2>3. \A f \in Editors : /\ editor'[f].hits = idle[f].hits
                           /\ editor'[f].pc = idle[f].pc
                           /\ editor'[f].client = idle[f].client
                           /\ editor'[f].copy = idle[f].copy
    BY <2>1, <2>2, ForgetKeeps
  <2> QED BY <2>2, <2>3, <1>i DEF Goal
<1> QED BY <1>1, <1>2, <1>3, <1>4, <1>5, <1>6, <1>7 DEF Edit, Goal

LEMMA PlansNext ==
  ASSUME TypeOK, PlansAreStored, [Next]_vars
  PROVE  PlansAreStored'
<1>s. \A c \in Claims : Stored(c) => Stored(c)'
  BY StoredStays
<1>t. /\ \A i \in Ingesters : ingester[i] \in IngesterRecord /\ ingester[i].fresh \subseteq Claims
      /\ \A e \in Editors : editor[e] \in EditorRecord
  BY DEF TypeOK, IngesterRecord, IngesterFields
<1>i. \A i \in Ingesters : ingester'[i] = ingester[i] => IngesterPlan(i)'
  BY <1>s, <1>t DEF PlansAreStored, IngesterPlan
<1>e. \A e \in Editors : editor'[e].hits = editor[e].hits /\ editor'[e].pc = editor[e].pc
        => EditorPlan(e)'
  BY <1>s DEF PlansAreStored, EditorPlan
<1>1. CASE UNCHANGED vars
  BY <1>1, <1>i, <1>e DEF vars, PlansAreStored
<1>2. ASSUME NEW i \in Ingesters, Ingest(i) PROVE PlansAreStored'
  <2>1. IngesterPlan(i)'
    BY <1>2, <1>s, IngestPlan DEF PlansAreStored
  <2> QED BY <1>2, <2>1, <1>i, <1>e, OthersStay DEF PlansAreStored
<1>3. CASE CollectInsert
  <2> DEFINE me == ingester[Collector]
             mine == {c \in me.fresh : ~Stored(c)}
  <2>c. Collector \in Ingesters
    BY DEF Ingesters
  <2>1. /\ ingester' = [ingester EXCEPT ![Collector] =
             [me EXCEPT !.pc = "merge", !.fresh = mine, !.phantom = me.fresh \ mine]]
        /\ \E first \in [mine -> me.batch] :
             terms' = [c \in Claims |-> IF c \in mine THEN TermsOf[first[c]] ELSE terms[c]]
    BY <1>3 DEF CollectInsert
  <2>2. ingester'[Collector].pc = "merge" /\ ingester'[Collector].fresh = mine
    BY <2>1, <2>c, <1>t DEF TypeOK, IngesterRecord, IngesterFields
  <2>3. \A c \in mine : terms'[c] # {}
    <3>1. me.batch \subseteq Payloads /\ mine \subseteq Claims
      BY <2>c, <1>t DEF IngesterRecord, IngesterFields
    <3> QED BY <2>1, <3>1, PayloadsAssumption
  <2>4. IngesterPlan(Collector)'
    BY <2>2, <2>3 DEF IngesterPlan, Stored
  <2> QED BY <1>3, <2>4, <1>i, <1>e, OthersStay DEF PlansAreStored
<1>4. ASSUME NEW e \in Editors, Edit(e) PROVE PlansAreStored'
  <2>1. /\ EditorPlan(e)'
        /\ \A f \in Editors \ {e} : /\ editor'[f].hits = editor[f].hits
                                    /\ editor'[f].pc = editor[f].pc
    BY <1>4, <1>s, EditPlan DEF PlansAreStored
  <2> QED BY <1>4, <2>1, <1>i, <1>e, OthersStay DEF PlansAreStored
<1>5. ASSUME NEW k \in Clients, DeleteClient(k) PROVE PlansAreStored'
  <2>1. \A e \in Editors : editor'[e].hits = editor[e].hits /\ editor'[e].pc = editor[e].pc
    BY <1>5, <1>t, ForgetKeeps DEF DeleteClient
  <2> QED BY <1>5, <2>1, <1>i, <1>e, OthersStay DEF PlansAreStored
<1>6. CASE Triage
  BY <1>6, <1>i, <1>e, OthersStay DEF PlansAreStored
<1>7. CASE Crash
  BY <1>7 DEF Crash, PlansAreStored, IngesterPlan, EditorPlan, IdleIngester, IdleEditor
<1> QED BY <1>1, <1>2, <1>3, <1>4, <1>5, <1>6, <1>7 DEF Next

\* A new alert has a stored claim and a live client.
LEMMA RaiseKeepsOrder ==
  ASSUME NoOrphans, TypeOK, NEW c \in Claims, NEW k \in Clients, NEW shared,
         RaiseAlert(<<c, k>>, shared), Stored(c), Live(k), UNCHANGED <<client, terms, records>>
  PROVE  NoOrphans'
<1>1. status' = [status EXCEPT ![<<c, k>>] = IF @ = "none" THEN "new" ELSE @]
  BY DEF RaiseAlert
<1>2. \A al \in Alerts : al # <<c, k>> => status'[al] = status[al]
  BY <1>1 DEF TypeOK
<1>3. status[<<c, k>>] # "none" => status'[<<c, k>>] # "none"
  BY <1>1 DEF TypeOK, Alerts
<1> QED BY <1>2, <1>3 DEF NoOrphans, Stored, Live, TypeOK, Alerts

\* Alerts without records can go, and all of a client with it.
LEMMA DeleteKeepsOrder ==
  ASSUME NoOrphans, TypeOK, NEW gone, DeleteAlerts(gone),
         records' \subseteq records, gone \cap records' = {},
         \A c \in Claims : Stored(c) => Stored(c)',
         \A c \in Claims, k \in Clients : <<c, k>> \in gone \/ client'[k] = client[k]
  PROVE  NoOrphans'
<1>1. \A al \in Alerts : al \in gone => status'[al] = "none"
  BY DEF DeleteAlerts
<1>2. \A al \in Alerts : al \notin gone => status'[al] = status[al]
  BY DEF DeleteAlerts
<1>3. \A al \in records' : status'[al] # "none"
  BY <1>2 DEF NoOrphans, TypeOK
<1> QED BY <1>1, <1>2, <1>3 DEF NoOrphans, Live, Alerts

LEMMA OrphansNext ==
  ASSUME TypeOK, PlansAreStored, NoOrphans, [Next]_vars
  PROVE  NoOrphans'
<1>s. \A c \in Claims : Stored(c) => Stored(c)'
  BY StoredStays
<1>u. UNCHANGED <<client, status, records>> => NoOrphans'
  BY <1>s DEF NoOrphans, Live
<1> USE DEF clientVars, claimVars, deskVars
<1>1. CASE UNCHANGED vars
  BY <1>1, <1>u DEF vars
<1>2. ASSUME NEW i \in Ingesters, Ingest(i) PROVE NoOrphans'
  <2>1. CASE MatchClaim(i)
    <3>1. ingester[i] \in IngesterRecord /\ ingester[i].pc = "raise"
      BY <2>1 DEF MatchClaim, TypeOK
    <3>2. ingester[i].claim \in Claims /\ Stored(ingester[i].claim)
      BY <3>1 DEF PlansAreStored, IngesterPlan, IngesterRecord, IngesterFields
    <3>3. PICK k \in Clients :
            IF ClientKeyHolds(k) THEN RaiseAlert(<<ingester[i].claim, k>>, ingester[i].hits[k])
                                 ELSE UNCHANGED <<status, basis>>
      BY <2>1 DEF MatchClaim
    <3>4. UNCHANGED <<client, terms, records>>
      BY <2>1 DEF MatchClaim
    <3> QED BY <3>2, <3>3, <3>4, <1>u, RaiseKeepsOrder DEF ClientKeyHolds
  <2>2. CASE ~MatchClaim(i)
    BY <1>2, <2>2, <1>u
    DEF Ingest, Lookup, PostInsert, MergeRead, MergeWrite, Observe, ReadClaim, ListClients
  <2> QED BY <2>1, <2>2
<1>3. CASE CollectInsert
  BY <1>3, <1>u DEF CollectInsert
<1>4. ASSUME NEW e \in Editors, Edit(e) PROVE NoOrphans'
  <2>m. editor[e] \in EditorRecord
    BY DEF TypeOK
  <2>1. ASSUME NEW k \in Clients, NEW watched \in Profiles,
               CreateClient(e, k, watched) \/ UpdateClient(e, k, watched)
        PROVE  NoOrphans'
    BY <2>1, <1>s DEF CreateClient, UpdateClient, SaveClient, NoOrphans, Live, TypeOK
  <2>2. CASE RematchClaim(e)
    <3>1. PICK c \in Claims :
            /\ editor[e].hits[c] # {}
            /\ IF ClientKeyHolds(editor[e].client)
               THEN RaiseAlert(<<c, editor[e].client>>, editor[e].hits[c])
               ELSE UNCHANGED <<status, basis>>
      BY <2>2 DEF RematchClaim
    <3>2. editor[e].client \in Clients /\ Stored(c)
      BY <3>1, <2>2, <2>m DEF RematchClaim, PlansAreStored, EditorPlan, EditorRecord
    <3>3. UNCHANGED <<client, terms, records>>
      BY <2>2 DEF RematchClaim
    <3> QED BY <3>1, <3>2, <3>3, <1>u, RaiseKeepsOrder DEF ClientKeyHolds
  <2>3. CASE CleanupDelete(e)
    <3> DEFINE me == editor[e]
               free == {c \in me.candidates : <<c, me.client>> \notin records}
               gone == (me.doomed \cup free) \X {me.client}
    <3>1. UNCHANGED <<client, records>>
      BY <2>3 DEF CleanupDelete
    <3>2. \/ UNCHANGED status
          \/ gone \cap records = {} /\ DeleteAlerts(gone)
      BY <2>3 DEF CleanupDelete
    <3> QED BY ONLY <3>1, <3>2, <1>u, DeleteKeepsOrder, TypeOK, NoOrphans, <1>s
  <2>4. CASE RematchClient(e) \/ RematchClaims(e) \/ CleanupSelect(e) \/ CleanupCheck(e)
    BY <2>4, <1>u DEF RematchClient, RematchClaims, CleanupSelect, CleanupCheck
  <2> QED BY <1>4, <2>1, <2>2, <2>3, <2>4 DEF Edit
<1>5. ASSUME NEW k \in Clients, DeleteClient(k) PROVE NoOrphans'
  BY <1>5, <1>s DEF DeleteClient, DeleteAlerts, NoOrphans, Live, TypeOK, Alerts
<1>6. CASE Triage
  <2>1. \A al \in Alerts : status[al] # "none" => status'[al] # "none"
    BY <1>6 DEF Triage, UpdateAlert, FalsePositive, SaveRecord, TypeOK
  <2>2. \A al \in Alerts : status'[al] # "none" => status[al] # "none"
    BY <1>6 DEF Triage, UpdateAlert, FalsePositive, SaveRecord, TypeOK, AlertKeyHolds
  <2>3. \A al \in records' : al \in Alerts /\ status[al] # "none"
    BY <1>6 DEF Triage, UpdateAlert, FalsePositive, SaveRecord, TypeOK, AlertKeyHolds,
                NoOrphans
  <2>4. UNCHANGED client
    BY <1>6 DEF Triage, UpdateAlert, FalsePositive, SaveRecord
  <2> QED BY <2>1, <2>2, <2>3, <2>4, <1>s DEF NoOrphans, Live, Alerts
<1>7. CASE Crash
  BY <1>7, <1>u DEF Crash
<1> QED BY <1>1, <1>2, <1>3, <1>4, <1>5, <1>6, <1>7 DEF Next

\* However stale the copies are that threads hold: no alert without its claim
\* and a live client, no record without its alert.
THEOREM OrphansCorrect == Spec => []NoOrphans
<1>1. Init => TypeOK /\ PlansAreStored /\ NoOrphans
  BY TypeInit, PlansInit DEF Init, NoOrphans, Alerts
<1>2. TypeOK /\ PlansAreStored /\ NoOrphans /\ [Next]_vars
        => (TypeOK /\ PlansAreStored /\ NoOrphans)'
  BY TypeNext, PlansNext, OrphansNext
<1> QED BY <1>1, <1>2, PTL DEF Spec

-----------------------------------------------------------------------------
(* What an analyst has reviewed. *)

\* The condition of ReviewedMatchIsKept, of one step.
Kept == \A a \in Alerts :
          status[a] = "reviewed" /\ status'[a] # "none" => basis'[a] = basis[a]

LEMMA RaiseKeepsBasis ==
  ASSUME TypeOK, NEW a \in Alerts, NEW shared, RaiseAlert(a, shared)
  PROVE  Kept
<1>1. basis' = [basis EXCEPT ![a] = IF status[a] = "reviewed" THEN @ ELSE shared]
  BY DEF RaiseAlert
<1> QED BY <1>1 DEF Kept, TypeOK

LEMMA DeleteKeepsBasis ==
  ASSUME NEW gone, DeleteAlerts(gone)
  PROVE  Kept
BY DEF DeleteAlerts, Kept

LEMMA BasisNext ==
  ASSUME TypeOK, [Next]_vars
  PROVE  Kept
<1>u. UNCHANGED basis => Kept
  BY DEF Kept
<1> USE DEF clientVars, claimVars, deskVars
<1>1. CASE UNCHANGED vars
  BY <1>1, <1>u DEF vars
<1>2. ASSUME NEW i \in Ingesters, Ingest(i) PROVE Kept
  <2>1. CASE MatchClaim(i)
    <3>1. ingester[i] \in IngesterRecord /\ ingester[i].pc = "raise"
      BY <2>1 DEF MatchClaim, TypeOK
    <3>2. ingester[i].claim \in Claims
      BY <3>1 DEF IngesterRecord, IngesterFields
    <3>3. PICK k \in Clients :
            IF ClientKeyHolds(k) THEN RaiseAlert(<<ingester[i].claim, k>>, ingester[i].hits[k])
                                 ELSE UNCHANGED <<status, basis>>
      BY <2>1 DEF MatchClaim
    <3>4. <<ingester[i].claim, k>> \in Alerts
      BY <3>2 DEF Alerts
    <3> QED BY <3>3, <3>4, <1>u, RaiseKeepsBasis
  <2>2. CASE ~MatchClaim(i)
    BY <1>2, <2>2, <1>u
    DEF Ingest, Lookup, PostInsert, MergeRead, MergeWrite, Observe, ReadClaim, ListClients
  <2> QED BY <2>1, <2>2
<1>3. CASE CollectInsert
  BY <1>3, <1>u DEF CollectInsert
<1>4. ASSUME NEW e \in Editors, Edit(e) PROVE Kept
  <2>1. CASE RematchClaim(e)
    <3>1. PICK c \in Claims :
            IF ClientKeyHolds(editor[e].client)
            THEN RaiseAlert(<<c, editor[e].client>>, editor[e].hits[c])
            ELSE UNCHANGED <<status, basis>>
      BY <2>1 DEF RematchClaim
    <3>2. editor[e].client \in Clients
      BY <2>1 DEF RematchClaim, TypeOK, EditorRecord
    <3>3. <<c, editor[e].client>> \in Alerts
      BY <3>2 DEF Alerts
    <3> QED BY <3>1, <3>3, <1>u, RaiseKeepsBasis
  <2>2. CASE CleanupDelete(e)
    <3>1. \/ UNCHANGED basis
          \/ \E gone : DeleteAlerts(gone)
      BY <2>2 DEF CleanupDelete
    <3> QED BY <3>1, <1>u, DeleteKeepsBasis
  <2>3. CASE ~RematchClaim(e) /\ ~CleanupDelete(e)
    BY <1>4, <2>3, <1>u
    DEF Edit, CreateClient, UpdateClient, SaveClient, RematchClient, RematchClaims,
        CleanupSelect, CleanupCheck
  <2> QED BY <2>1, <2>2, <2>3
<1>5. ASSUME NEW k \in Clients, DeleteClient(k) PROVE Kept
  BY <1>5, DeleteKeepsBasis DEF DeleteClient
<1>6. CASE Triage
  BY <1>6, <1>u DEF Triage, UpdateAlert, FalsePositive, SaveRecord
<1>7. CASE Crash
  BY <1>7, <1>u DEF Crash
<1> QED BY <1>1, <1>2, <1>3, <1>4, <1>5, <1>6, <1>7 DEF Next

\* Neither an ingestion nor an edit of a client rewrites what a reviewed alert
\* says of its match, whatever they hold from before the review.
THEOREM ReviewedCorrect == Spec => ReviewedMatchIsKept
<1>1. TypeOK /\ [Next]_vars => [Kept]_vars
  BY BasisNext
<1>2. Kept <=> \A a \in Alerts :
          status[a] = "reviewed" /\ status'[a] # "none" => basis'[a] = basis[a]
  BY DEF Kept
<1> QED BY <1>1, <1>2, DeskTypeCorrect, PTL DEF Spec, ReviewedMatchIsKept
=============================================================================
