---------------------------- MODULE WebProfiles ----------------------------
(***************************************************************************)
(* The profiles of the threat actors: ActorProfilesPage with the selector, *)
(* the synchronization and the AI refresh of ThreatActorProfiles (App.tsx).*)
(*                                                                         *)
(* An effect asks for the profile of the chosen actor whenever the choice  *)
(* or the index changes.  A reload after a synchronization works on the    *)
(* choice of the moment the synchronization was started.  The component    *)
(* that started it goes whenever the page is emptied, and the next one     *)
(* knows nothing of a synchronization under way.                           *)
(***************************************************************************)
EXTENDS Naturals, Sequences, SequencesExt

CONSTANTS
  Actors,
  NoActor,
  MaxLoads,   \* bound: profiles loaded at once
  MaxSyncs,   \* bound: synchronizations at once
  MaxChoices  \* bound: choices and synchronizations

ASSUME ActorsAssumption ==
  /\ Actors # {} /\ NoActor \notin Actors
  /\ MaxLoads \in Nat /\ MaxSyncs \in Nat /\ MaxChoices \in Nat

VARIABLES
  known,      \* server: the actors with a profile
  index,      \* profileIndex
  indexLoad,  \* the calls of loadIndex, the page's own and those of its reloads
  actor,      \* selectedActor, which localStorage keeps
  profile,    \* selectedProfile
  fetches,    \* profiles under way, in the order they were asked for
  syncing,    \* sync: the calls, the choice each reloads, and whose component is still there
  moves,      \* choices so far
  odd         \* history: what the property excepts

profileVars ==
  <<known, index, indexLoad, actor, profile, fetches, syncing, moves, odd>>

Syncs == 1 .. MaxSyncs
IndexLoads == {0} \cup Syncs

Nobody == [step |-> "none", actor |-> NoActor, mine |-> FALSE]
NoIndex == [step |-> "none", known |-> {}]

ProfilesTypeOK ==
  /\ known \subseteq Actors /\ index \subseteq Actors
  /\ indexLoad \in [IndexLoads -> [step : {"none", "sent", "seen"}, known : SUBSET Actors]]
  /\ actor \in Actors \cup {NoActor} /\ profile \in Actors \cup {NoActor}
  /\ Len(fetches) <= MaxLoads + 2
  /\ \A i \in DOMAIN fetches : fetches[i].of \in Actors
  /\ syncing \in [Syncs -> [step : {"none", "sent", "served"},
                            actor : Actors \cup {NoActor}, mine : BOOLEAN]]
  /\ moves \in 0 .. MaxChoices
  /\ odd \in [rechosen : BOOLEAN, crossed : BOOLEAN, failed : BOOLEAN]

\* A first visit: no choice is stored yet.
ProfilesInit ==
  /\ known = {CHOOSE a \in Actors : TRUE}
  /\ index = {}
  /\ indexLoad = [l \in IndexLoads |-> IF l = 0 THEN [NoIndex EXCEPT !.step = "sent"] ELSE NoIndex]
  /\ actor = NoActor /\ profile = NoActor
  /\ fetches = <<>>
  /\ syncing = [k \in Syncs |-> Nobody]
  /\ moves = 0
  /\ odd = [rechosen |-> FALSE, crossed |-> FALSE, failed |-> FALSE]

-----------------------------------------------------------------------------
(* Loading. *)

Load(a) == [of |-> a, late |-> FALSE]

\* A page whose question failed offers another try.
AskIndex ==
  /\ indexLoad[0].step = "none" /\ profile = NoActor /\ odd.failed
  /\ Len(fetches) < MaxLoads
  /\ indexLoad' = [indexLoad EXCEPT ![0].step = "sent"]
  /\ fetches' = IF actor = NoActor THEN fetches ELSE Append(fetches, Load(actor))
  /\ UNCHANGED <<known, index, actor, profile, syncing, moves, odd>>

ServeIndex(l) ==
  /\ indexLoad[l].step = "sent"
  /\ indexLoad' = [indexLoad EXCEPT ![l] = [step |-> "seen", known |-> known]]
  /\ UNCHANGED <<known, index, actor, profile, fetches, syncing, moves, odd>>

\* The page is emptied: ThreatActorProfiles is unmounted, with its syncing flag.
Emptied ==
  /\ profile' = NoActor
  /\ syncing' = [k \in Syncs |-> [syncing[k] EXCEPT !.mine = FALSE]]

\* The effect of a new index, or of a new choice: the profile shown goes, and
\* that of the choice is loaded.
ShowProfileOf(a, listed) ==
  IF a \in listed
    THEN Emptied /\ fetches' = Append(fetches, Load(a))
    ELSE UNCHANGED <<profile, fetches, syncing>>

\* loadIndex keeps a choice that is listed, and else takes the first actor.
ReceiveIndex(l) ==
  LET seen == indexLoad[l].known IN
  /\ indexLoad[l].step = "seen" /\ Len(fetches) < MaxLoads
  /\ indexLoad' = [indexLoad EXCEPT ![l] = NoIndex]
  /\ index' = seen
  /\ actor' = IF actor \in seen THEN actor
              ELSE IF seen = {} THEN NoActor ELSE CHOOSE a \in seen : TRUE
  /\ ShowProfileOf(actor', seen)
  /\ UNCHANGED <<known, moves, odd>>

LoseIndex(l) ==
  /\ indexLoad[l].step # "none"
  /\ indexLoad' = [indexLoad EXCEPT ![l] = NoIndex]
  /\ odd' = [odd EXCEPT !.failed = TRUE]
  /\ UNCHANGED <<known, index, actor, profile, fetches, syncing, moves>>

Remaining(i) == RemoveAt([k \in DOMAIN fetches |-> [fetches[k] EXCEPT !.late = @ \/ k < i]], i)

\* Whatever is chosen by then.
ReceiveProfile(i) ==
  /\ i \in DOMAIN fetches
  /\ profile' = fetches[i].of
  /\ fetches' = Remaining(i)
  /\ odd' = [odd EXCEPT !.crossed = @ \/ fetches[i].late]
  /\ UNCHANGED <<known, index, indexLoad, actor, syncing, moves>>

LoseProfile(i) ==
  /\ i \in DOMAIN fetches
  /\ Emptied
  /\ fetches' = Remaining(i)
  /\ odd' = [odd EXCEPT !.failed = TRUE]
  /\ UNCHANGED <<known, index, indexLoad, actor, moves>>

-----------------------------------------------------------------------------
(* The analyst; the page has its controls while a profile is shown. *)

Move == profile # NoActor /\ moves < MaxChoices /\ moves' = moves + 1

\* onSelect empties the page; the effect fills it again if the choice is new.
SelectActor(a) ==
  /\ a \in index /\ Move /\ Emptied
  /\ IF a = actor
       THEN odd' = [odd EXCEPT !.rechosen = TRUE] /\ UNCHANGED fetches
       ELSE fetches' = Append(fetches, Load(a)) /\ UNCHANGED odd
  /\ actor' = a
  /\ UNCHANGED <<known, index, indexLoad>>

\* The button is disabled by the synchronizations of its own component only.
StartSync(k) ==
  /\ syncing[k].step = "none" /\ \A j \in Syncs : ~syncing[j].mine
  /\ Move
  /\ syncing' = [syncing EXCEPT ![k] = [step |-> "sent", actor |-> actor, mine |-> TRUE]]
  /\ UNCHANGED <<known, index, indexLoad, actor, profile, fetches, odd>>

\* ATT&CK groups join the profiles; so do the actors of new claims.
ServeSync(k) ==
  /\ syncing[k].step = "sent"
  /\ \E a \in Actors : known' = known \cup {a}
  /\ syncing' = [syncing EXCEPT ![k].step = "served"]
  /\ UNCHANGED <<index, indexLoad, actor, profile, fetches, moves, odd>>

\* reloadProfiles: the index, and the profile of the choice of back then.
ReceiveSync(k) ==
  LET a == syncing[k].actor IN
  /\ syncing[k].step = "served" /\ indexLoad[k].step = "none" /\ Len(fetches) < MaxLoads
  /\ syncing' = [syncing EXCEPT ![k] = Nobody]
  /\ indexLoad' = [indexLoad EXCEPT ![k].step = "sent"]
  /\ fetches' = IF a = NoActor THEN fetches ELSE Append(fetches, Load(a))
  /\ odd' = [odd EXCEPT !.crossed = @ \/ a # actor]
  /\ UNCHANGED <<known, index, actor, profile, moves>>

LoseSync(k) ==
  /\ syncing[k].step # "none"
  /\ syncing' = [syncing EXCEPT ![k] = Nobody]
  /\ UNCHANGED <<known, index, indexLoad, actor, profile, fetches, moves, odd>>

ProfilesNext ==
  \/ AskIndex
  \/ \E l \in IndexLoads : ServeIndex(l) \/ ReceiveIndex(l) \/ LoseIndex(l)
  \/ \E i \in 1 .. MaxLoads + 2 : ReceiveProfile(i) \/ LoseProfile(i)
  \/ \E a \in Actors : SelectActor(a)
  \/ \E k \in Syncs : StartSync(k) \/ ServeSync(k) \/ ReceiveSync(k) \/ LoseSync(k)

-----------------------------------------------------------------------------
(* Properties. *)

\* Once nothing is under way the page shows the profile of the actor chosen,
\* unless a question failed or was overtaken, the choice changed during a
\* synchronization, or the actor was chosen who was chosen already: that
\* empties the page and changes nothing an effect would notice.
ChoiceIsShown ==
  /\ ~odd.rechosen /\ ~odd.crossed /\ ~odd.failed
  /\ fetches = <<>> /\ index # {}
  => profile = actor

=============================================================================
