----------------------------- MODULE AlertDesk -----------------------------
(***************************************************************************)
(* The alert desk of service.py: claims come in from the collection and    *)
(* from analysts, are merged by actor and victim and matched against every *)
(* client; a new or edited client is matched against every claim; analysts *)
(* triage the alerts.                                                      *)
(*                                                                         *)
(* Every endpoint runs in a thread of its own and the collection beside    *)
(* them.  A SELECT before the first write of a connection, and each        *)
(* transaction, is a step.  A thread goes on with the copies it has read.  *)
(***************************************************************************)
CONSTANTS
  Claims,     \* actor and victim pairs, the identity of a claim
  Clients,    \* identifiers of clients; none is used twice
  NoClient,   \* the client of an idle editor
  NoClaim,    \* the claim of an ingester that matches none
  Terms,      \* what a match can rest on: domains and names
  Payloads,   \* records of the public sources
  ClaimOf,    \* the claim a record is about
  TermsOf,    \* the terms a record shows
  Fetches,    \* what a collection can bring: sets of records
  Posts,      \* the records an analyst can post
  Profiles,   \* the terms a client can be watched by
  Collector,  \* the collection; collection_lock admits one at a time
  Posters,    \* threads that serve POST /api/v1/claims
  Editors     \* threads that create or edit a client

ASSUME PayloadsAssumption ==
  /\ ClaimOf \in [Payloads -> Claims]
  /\ TermsOf \in [Payloads -> (SUBSET Terms) \ {{}}]   \* the name of the victim
ASSUME InputsAssumption ==
  /\ Fetches \subseteq (SUBSET Payloads) \ {{}}
  /\ Posts \subseteq Payloads
  /\ Profiles \subseteq SUBSET Terms
ASSUME NamesAssumption ==
  NoClient \notin Clients /\ NoClaim \notin Claims /\ Collector \notin Posters

Alerts == Claims \X Clients   \* alerts are UNIQUE(claim_id, client_id)
Ingesters == {Collector} \cup Posters

VARIABLES
  client,    \* a client before, while and after it has its row
  profile,   \* clients: the terms it is watched by
  terms,     \* claims: the terms a stored claim shows; {}: no row
  archived,  \* source_observations
  status,    \* alerts.status; "reviewed" is each status but new, "none" no row
  basis,     \* alerts.reason, evidence, score: the terms it rests on
  records,   \* alerts with a draft, an assessment or feedback
  ingester,  \* threads inside ingest or ingest_many
  editor,    \* threads inside rematch_all_claims
  lost       \* history: pairs whose match the code has given up

deskVars == <<status, basis, records>>
claimVars == <<terms, archived>>
clientVars == <<client, profile>>
vars == <<client, profile, terms, archived, status, basis, records, ingester,
          editor, lost>>

IngesterFields ==
  [pc : {"idle", "insert", "merge", "write", "observe", "match", "list", "raise"},
   batch : SUBSET Payloads,     \* what it was given
   todo : SUBSET Payloads,      \* of it, what has still to be archived
   fresh : SUBSET Claims,       \* claims it has inserted, not yet matched
   phantom : SUBSET Claims,     \* claims it holds an identifier without row of
   claim : Claims \cup {NoClaim},
   copy : SUBSET Terms,         \* the terms of claim when it was read
   hits : [Clients -> SUBSET Terms]]  \* alerts of claim still to be written

IngesterRecord ==
  {r \in IngesterFields : r.pc \in {"list", "raise"} => r.claim \in r.fresh}

IdleIngester ==
  [pc |-> "idle", batch |-> {}, todo |-> {}, fresh |-> {}, phantom |-> {},
   claim |-> NoClaim, copy |-> {}, hits |-> [k \in Clients |-> {}]]

EditorFields ==
  [pc : {"idle", "client", "claims", "raise", "select", "check", "delete"},
   client : Clients \cup {NoClient},
   copy : SUBSET Terms,         \* the profile when it was read
   hits : [Claims -> SUBSET Terms],  \* alerts still to be written
   matched : SUBSET Claims,     \* matched_claim_ids
   candidates : SUBSET Claims,  \* alerts of client that may have to go
   doomed : SUBSET Claims]      \* the one found to have no records

EditorRecord == {r \in EditorFields : r.pc # "idle" => r.client \in Clients}

IdleEditor ==
  [pc |-> "idle", client |-> NoClient, copy |-> {},
   hits |-> [c \in Claims |-> {}], matched |-> {}, candidates |-> {},
   doomed |-> {}]

TypeOK ==
  /\ client \in [Clients -> {"none", "live", "deleted"}]
  /\ profile \in [Clients -> SUBSET Terms]
  /\ terms \in [Claims -> SUBSET Terms]
  /\ archived \subseteq Payloads
  /\ status \in [Alerts -> {"none", "new", "reviewed"}]
  /\ basis \in [Alerts -> SUBSET Terms]
  /\ records \subseteq Alerts
  /\ ingester \in [Ingesters -> IngesterRecord]
  /\ editor \in [Editors -> EditorRecord]
  /\ lost \subseteq Alerts

Init ==
  /\ client = [k \in Clients |-> "none"]
  /\ profile = [k \in Clients |-> {}]
  /\ terms = [c \in Claims |-> {}]
  /\ archived = {}
  /\ status = [a \in Alerts |-> "none"]
  /\ basis = [a \in Alerts |-> {}]
  /\ records = {}
  /\ ingester = [i \in Ingesters |-> IdleIngester]
  /\ editor = [e \in Editors |-> IdleEditor]
  /\ lost = {}

-----------------------------------------------------------------------------
(* Matching and alerts. *)

Live(k) == client[k] = "live"
Stored(c) == terms[c] # {}

\* match_claim: the terms a claim and a profile share; no match if there are
\* none.  Score, severity and text follow from them.
Match(shown, watched) == shown \cap watched

\* Mutant of ClientKeyHolds: foreign keys are off, as is SQLite's default.
ClientKeyUnchecked(k) == TRUE

\* A foreign key is checked by the statement that writes the row.
ClientKeyHolds(k) == Live(k)
AlertKeyHolds(a) == status[a] # "none"

\* Mutant of RaiseAlert: the upsert without its WHERE.
RaiseAlertAnew(a, shared) ==
  /\ status' = [status EXCEPT ![a] = IF @ = "none" THEN "new" ELSE @]
  /\ basis' = [basis EXCEPT ![a] = shared]

\* The upsert of _match_claim: a new row, or new match data for an alert
\* that nobody has reviewed.
RaiseAlert(a, shared) ==
  /\ status' = [status EXCEPT ![a] = IF @ = "none" THEN "new" ELSE @]
  /\ basis' = [basis EXCEPT ![a] = IF status[a] = "reviewed" THEN @ ELSE shared]

\* Mutant of DeleteAlerts: the rows are marked, and stay.
DeleteAlertsSoftly(gone) ==
  /\ status' = [a \in Alerts |-> IF a \in gone /\ status[a] # "none" THEN "deleted"
                                                              ELSE status[a]]
  /\ UNCHANGED basis

\* Rows of alerts go.  Their identifiers are never used again, so a thread
\* that holds one holds nothing any more.
DeleteAlerts(gone) ==
  /\ status' = [a \in Alerts |-> IF a \in gone THEN "none" ELSE status[a]]
  /\ basis' = [a \in Alerts |-> IF a \in gone THEN {} ELSE basis[a]]

Forget(ed, gone) ==
  [ed EXCEPT !.candidates = {c \in @ : <<c, ed.client>> \notin gone},
             !.doomed = {c \in @ : <<c, ed.client>> \notin gone}]

-----------------------------------------------------------------------------
(* Ingestion: ingest_many for the collection, ingest for a posted claim. *)

IngesterAt(i, pc) == ingester[i].pc = pc

Matches(c) == {c} \X Clients

\* An exception leaves the thread; what it has inserted is never matched:
\* the next collection finds the claims stored.
Abort(i) ==
  /\ ingester' = [ingester EXCEPT ![i] = IdleIngester]
  /\ lost' = lost \cup UNION {Matches(c) : c \in ingester[i].fresh}

\* Which claims of the batch are not stored yet.
Lookup(i, batch) ==
  /\ IngesterAt(i, "idle")
  /\ batch \in IF i = Collector THEN Fetches ELSE {{p} : p \in Posts}
  /\ LET missing == {ClaimOf[p] : p \in batch} \ {c \in Claims : Stored(c)}
     IN ingester' = [ingester EXCEPT ![i] =
          [IdleIngester EXCEPT !.pc = IF missing = {} THEN "merge" ELSE "insert",
                               !.batch = batch, !.todo = batch,
                               !.fresh = missing]]
  /\ UNCHANGED <<clientVars, claimVars, deskVars, editor, lost>>

\* INSERT OR IGNORE of the first record of each missing claim.  A claim that
\* somebody else has inserted since keeps an identifier that has no row.
CollectInsert ==
  LET me == ingester[Collector]
      mine == {c \in me.fresh : ~Stored(c)}
  IN
  /\ me.pc = "insert"
  /\ \E first \in [mine -> me.batch] :
       /\ \A c \in mine : ClaimOf[first[c]] = c
       /\ terms' = [c \in Claims |-> IF c \in mine THEN TermsOf[first[c]]
                                                   ELSE terms[c]]
  /\ ingester' = [ingester EXCEPT ![Collector].pc = "merge",
                                  ![Collector].fresh = mine,
                                  ![Collector].phantom = me.fresh \ mine]
  /\ UNCHANGED <<clientVars, archived, deskVars, editor, lost>>

\* A posted claim; UNIQUE(fingerprint) refuses one stored since the look-up.
PostInsert(i) ==
  /\ i # Collector /\ IngesterAt(i, "insert")
  /\ \E p \in ingester[i].batch :
       IF Stored(ClaimOf[p])
       THEN /\ ingester' = [ingester EXCEPT ![i] = IdleIngester]
            /\ UNCHANGED terms
       ELSE /\ ingester' = [ingester EXCEPT ![i].pc = "observe"]
            /\ terms' = [terms EXCEPT ![ClaimOf[p]] = TermsOf[p]]
  /\ UNCHANGED <<clientVars, archived, deskVars, editor, lost>>

\* _merge_claim_metadata reads the first claim it finds before its UPDATE
\* opens the transaction.
MergeRead(i) ==
  LET me == ingester[i] IN
  /\ me.pc = "merge"
  /\ \E p \in me.batch :
       /\ ClaimOf[p] \in me.phantom => \A q \in me.batch : ClaimOf[q] \in me.phantom
       /\ ingester' = [ingester EXCEPT ![i].pc = "write",
                                       ![i].claim = ClaimOf[p],
                                       ![i].copy = terms[ClaimOf[p]]]
  /\ UNCHANGED <<clientVars, claimVars, deskVars, editor, lost>>

\* The transaction: the first claim gets what was read and what the records
\* add, the other claims what they show now and what the records add.
MergeWrite(i) ==
  LET me == ingester[i]
      Added(c) == UNION {TermsOf[p] : p \in {q \in me.batch : ClaimOf[q] = c}}
      Merged(c) == IF c \in me.phantom \/ Added(c) = {} THEN terms[c]
                   ELSE (IF c = me.claim THEN me.copy ELSE terms[c]) \cup Added(c)
      Late(c) == IF c \in me.fresh THEN {} ELSE Merged(c) \ terms[c]
  IN
  /\ me.pc = "write"
  /\ terms' = [c \in Claims |-> Merged(c)]
  /\ ingester' = [ingester EXCEPT ![i].pc = "observe", ![i].claim = NoClaim,
                                  ![i].copy = {}]
  /\ lost' = lost \cup {a \in Alerts : Match(Late(a[1]), profile[a[2]]) # {}}
  /\ UNCHANGED <<clientVars, archived, deskVars, editor>>

\* _store_source_observation, once per record.  Its foreign key refuses an
\* identifier without row, and the exception ends the whole batch.
Observe(i) ==
  LET me == ingester[i] IN
  /\ me.pc = "observe"
  /\ \E p \in me.todo :
       IF p \notin archived /\ ClaimOf[p] \in me.phantom
       THEN /\ Abort(i)
            /\ UNCHANGED archived
       ELSE /\ archived' = archived \cup {p}
            /\ ingester' = [ingester EXCEPT ![i] =
                 IF me.todo # {p} THEN [me EXCEPT !.todo = @ \ {p}]
                 ELSE IF me.fresh = {} THEN IdleIngester
                 ELSE [me EXCEPT !.pc = "match", !.todo = {}]]
            /\ UNCHANGED lost
  /\ UNCHANGED <<clientVars, terms, deskVars, editor>>

\* get_claim.
ReadClaim(i) ==
  /\ IngesterAt(i, "match")
  /\ \E c \in ingester[i].fresh :
       ingester' = [ingester EXCEPT ![i].pc = "list", ![i].claim = c,
                                    ![i].copy = terms[c]]
  /\ UNCHANGED <<clientVars, claimVars, deskVars, editor, lost>>

\* Mutant of Continue: the loop over the new claims ends with the first.
ContinueOnce(me) ==
  IF \E k \in Clients : me.hits[k] # {} THEN [me EXCEPT !.pc = "raise"]
  ELSE IdleIngester

\* When no alert of its claim is left to write, the next claim follows.
Continue(me) ==
  IF \E k \in Clients : me.hits[k] # {} THEN [me EXCEPT !.pc = "raise"]
  ELSE IF me.fresh = {me.claim} THEN IdleIngester
  ELSE [me EXCEPT !.pc = "match", !.fresh = @ \ {me.claim}, !.claim = NoClaim,
                  !.copy = {}]

\* list_clients, and match_claim with each of them.
ListClients(i) ==
  LET me == ingester[i] IN
  /\ me.pc = "list"
  /\ ingester' = [ingester EXCEPT ![i] = Continue([me EXCEPT !.hits =
       [k \in Clients |-> IF Live(k) THEN Match(me.copy, profile[k]) ELSE {}]])]
  /\ UNCHANGED <<clientVars, claimVars, deskVars, editor, lost>>

\* One alert; a client deleted since the list was read breaks off the rest.
MatchClaim(i) ==
  LET me == ingester[i] IN
  /\ me.pc = "raise"
  /\ \E k \in Clients :
       /\ me.hits[k] # {}
       /\ IF ClientKeyHolds(k)
          THEN /\ RaiseAlert(<<me.claim, k>>, me.hits[k])
               /\ ingester' = [ingester EXCEPT ![i] =
                                 Continue([me EXCEPT !.hits[k] = {}])]
               /\ UNCHANGED lost
          ELSE /\ Abort(i)
               /\ UNCHANGED <<status, basis>>
  /\ UNCHANGED <<clientVars, claimVars, records, editor>>

-----------------------------------------------------------------------------
(* Clients: create_client, update_client and their rematch_all_claims. *)

EditorAt(e, pc) == editor[e].pc = pc

\* The row is committed before the rematch begins.
SaveClient(e, k, watched) ==
  /\ EditorAt(e, "idle")
  /\ client' = [client EXCEPT ![k] = "live"]
  /\ profile' = [profile EXCEPT ![k] = watched]
  /\ editor' = [editor EXCEPT ![e].pc = "client", ![e].client = k]
  /\ UNCHANGED <<claimVars, deskVars, ingester, lost>>

CreateClient(e, k, watched) == client[k] = "none" /\ SaveClient(e, k, watched)

UpdateClient(e, k, watched) == Live(k) /\ SaveClient(e, k, watched)

\* get_client.
RematchClient(e) ==
  LET k == editor[e].client IN
  /\ EditorAt(e, "client")
  /\ editor' = [editor EXCEPT ![e] =
       IF Live(k) THEN [@ EXCEPT !.pc = "claims", !.copy = profile[k]]
                  ELSE IdleEditor]
  /\ UNCHANGED <<clientVars, claimVars, deskVars, ingester, lost>>

\* SELECT of all claims, and match_claim with each of them.
RematchClaims(e) ==
  LET hits == [c \in Claims |-> Match(terms[c], editor[e].copy)]
      matched == {c \in Claims : hits[c] # {}}
  IN
  /\ EditorAt(e, "claims")
  /\ editor' = [editor EXCEPT ![e].pc = IF matched = {} THEN "select" ELSE "raise",
                              ![e].hits = hits, ![e].matched = matched]
  /\ UNCHANGED <<clientVars, claimVars, deskVars, ingester, lost>>

RematchClaim(e) ==
  LET me == editor[e] IN
  /\ me.pc = "raise"
  /\ \E c \in Claims :
       /\ me.hits[c] # {}
       /\ IF ClientKeyHolds(me.client)
          THEN /\ RaiseAlert(<<c, me.client>>, me.hits[c])
               /\ editor' = [editor EXCEPT ![e].hits[c] = {},
                    ![e].pc = IF \E d \in Claims \ {c} : me.hits[d] # {}
                              THEN "raise" ELSE "select"]
          ELSE /\ editor' = [editor EXCEPT ![e] = IdleEditor]
               /\ UNCHANGED <<status, basis>>
  /\ UNCHANGED <<clientVars, claimVars, records, ingester, lost>>

\* The untouched alerts of the client outside of matched_claim_ids.
CleanupSelect(e) ==
  LET me == editor[e]
      candidates == {c \in Claims \ me.matched : status[<<c, me.client>>] = "new"}
  IN
  /\ me.pc = "select"
  /\ editor' = [editor EXCEPT ![e] =
       IF candidates = {} THEN IdleEditor
       ELSE [me EXCEPT !.pc = "check", !.candidates = candidates]]
  /\ UNCHANGED <<clientVars, claimVars, deskVars, ingester, lost>>

\* has_artifacts, asked before the first DELETE opens the transaction.
CleanupCheck(e) ==
  LET me == editor[e] IN
  /\ me.pc = "check"
  /\ \/ /\ me.candidates = {}
        /\ editor' = [editor EXCEPT ![e] = IdleEditor]
     \/ \E c \in me.candidates :
          editor' = [editor EXCEPT ![e] =
            IF <<c, me.client>> \in records
            THEN [me EXCEPT !.candidates = @ \ {c}]
            ELSE [me EXCEPT !.pc = "delete", !.candidates = @ \ {c},
                            !.doomed = {c}]]
  /\ UNCHANGED <<clientVars, claimVars, deskVars, ingester, lost>>

\* The transaction: the first DELETE, then a check and a DELETE for each of
\* the others.  A record written since the check refuses the first DELETE,
\* and the whole clean-up with it.
CleanupDelete(e) ==
  LET me == editor[e]
      free == {c \in me.candidates : <<c, me.client>> \notin records}
      gone == (me.doomed \cup free) \X {me.client}
      idle == [editor EXCEPT ![e] = IdleEditor]
  IN
  /\ me.pc = "delete"
  /\ IF gone \cap records # {}
     THEN /\ editor' = idle
          /\ UNCHANGED <<status, basis, lost>>
     ELSE /\ DeleteAlerts(gone)
          /\ editor' = [f \in Editors |-> Forget(idle[f], gone)]
          /\ lost' = lost \cup gone
  /\ UNCHANGED <<clientVars, claimVars, records, ingester>>

\* delete_client: the client, its alerts and all their records, at once.
DeleteClient(k) ==
  LET gone == Claims \X {k} IN
  /\ Live(k)
  /\ client' = [client EXCEPT ![k] = "deleted"]
  /\ profile' = [profile EXCEPT ![k] = {}]
  /\ DeleteAlerts(gone)
  /\ records' = records \ gone
  /\ editor' = [e \in Editors |-> Forget(editor[e], gone)]
  /\ UNCHANGED <<claimVars, ingester, lost>>

-----------------------------------------------------------------------------
(* Analysts. *)

\* update_alert and update_alerts: any status, also back to new.
UpdateAlert(a, s) ==
  /\ AlertKeyHolds(a) /\ status[a] # s
  /\ status' = [status EXCEPT ![a] = s]
  /\ UNCHANGED <<clientVars, claimVars, basis, records, ingester, editor, lost>>

\* record_false_positive: the feedback and the dismissal, in one transaction
\* that a deleted alert refuses.
FalsePositive(a) ==
  /\ AlertKeyHolds(a)
  /\ records' = records \cup {a}
  /\ status' = [status EXCEPT ![a] = "reviewed"]
  /\ UNCHANGED <<clientVars, claimVars, basis, ingester, editor, lost>>

\* save_notification_draft and save_alert_ai_assessment.
SaveRecord(a) ==
  /\ AlertKeyHolds(a)
  /\ records' = records \cup {a}
  /\ UNCHANGED <<clientVars, claimVars, status, basis, ingester, editor, lost>>

-----------------------------------------------------------------------------
\* The server stops and is started again: its threads are gone.
Crash ==
  LET unmatched == {c \in Claims : \E i \in Ingesters : c \in ingester[i].fresh}
      unedited == {editor[e].client : e \in {f \in Editors :
                     editor[f].pc \in {"client", "claims", "raise"}}}
  IN
  /\ ingester' = [i \in Ingesters |-> IdleIngester]
  /\ editor' = [e \in Editors |-> IdleEditor]
  /\ lost' = lost \cup {a \in Alerts : a[1] \in unmatched \/ a[2] \in unedited}
  /\ UNCHANGED <<clientVars, claimVars, deskVars>>

Ingest(i) ==
  \/ \E batch \in SUBSET Payloads : Lookup(i, batch)
  \/ PostInsert(i)
  \/ MergeRead(i)
  \/ MergeWrite(i)
  \/ Observe(i)
  \/ ReadClaim(i)
  \/ ListClients(i)
  \/ MatchClaim(i)

Edit(e) ==
  \/ \E k \in Clients, watched \in Profiles :
       CreateClient(e, k, watched) \/ UpdateClient(e, k, watched)
  \/ RematchClient(e)
  \/ RematchClaims(e)
  \/ RematchClaim(e)
  \/ CleanupSelect(e)
  \/ CleanupCheck(e)
  \/ CleanupDelete(e)

Triage ==
  \E a \in Alerts :
    \/ \E s \in {"new", "reviewed"} : UpdateAlert(a, s)
    \/ FalsePositive(a)
    \/ SaveRecord(a)

Next ==
  \/ \E i \in Ingesters : Ingest(i)
  \/ CollectInsert
  \/ \E e \in Editors : Edit(e)
  \/ \E k \in Clients : DeleteClient(k)
  \/ Triage
  \/ Crash

Spec == Init /\ [][Next]_vars

-----------------------------------------------------------------------------
(* Properties. *)

\* No alert without its claim and a live client, no draft, assessment or
\* feedback without its alert, whichever threads hold old copies of them
\* (alerts and analyst_feedback in database.py, delete_client).
NoOrphans ==
  /\ \A c \in Claims, k \in Clients :
       status[<<c, k>>] # "none" => Stored(c) /\ Live(k)
  /\ \A a \in records : status[a] # "none"

\* An alert of claim c and client k will still be written by a thread at work.
Awaited(c, k) ==
  \/ \E i \in Ingesters :
       /\ c \in ingester[i].fresh
       /\ ingester[i].pc # "insert"
       /\ ingester[i].pc = "raise" /\ ingester[i].claim = c
            => ingester[i].hits[k] # {}
  \/ \E e \in Editors :
       /\ editor[e].client = k
       /\ \/ editor[e].pc \in {"client", "claims"}
          \/ editor[e].hits[c] # {}

\* A claim collected while a client is being created or edited is matched by
\* one of the two: every match of a stored claim and a live client has an
\* alert, or a thread will write it, or it was given up in one of four ways:
\* an exception or a crash between the insert and the match, a later merge, or
\* the clean-up of an edit (create_client, update_client, ingest_many).
NoMatchIsForgotten ==
  \A c \in Claims, k \in Clients :
    /\ Live(k)
    /\ Match(terms[c], profile[k]) # {}
    => \/ status[<<c, k>>] # "none"
       \/ Awaited(c, k)
       \/ <<c, k>> \in lost

\* What an alert says about its match is not rewritten under an analyst who
\* has reviewed it (the WHERE of _match_claim).
ReviewedMatchIsKept ==
  [][\A a \in Alerts :
       status[a] = "reviewed" /\ status'[a] # "none" => basis'[a] = basis[a]]_vars

\* "Remove only untouched alerts that no longer match the edited profile.
\* Reviewed alerts and any record with dependent analyst/evidence artifacts
\* remain" (service.py 3305): an alert goes only with its client, or while it
\* is new, has no record and no longer matches.
OnlyStaleAlertsGo ==
  [][\A c \in Claims, k \in Clients :
       status[<<c, k>>] # "none" /\ status'[<<c, k>>] = "none" /\ client'[k] = "live"
       => /\ status[<<c, k>>] = "new"
          /\ <<c, k>> \notin records
          /\ Match(terms[c], profile[k]) = {}]_vars
=============================================================================
