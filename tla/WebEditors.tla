----------------------------- MODULE WebEditors -----------------------------
(***************************************************************************)
(* The form of a new client, its lists as the editors of App.tsx build     *)
(* them, and what schemas.py and the clients table refuse of it.           *)
(*                                                                         *)
(* A list is a set where the editor drops what is already in it, and a     *)
(* sequence where it does not.  A word is long enough for every list, but  *)
(* for Letter; as a name Endless is too long.  A text is blank, or right,  *)
(* or wrong for the server: a name of more than 200 characters, a domain   *)
(* without a dot, with a space or too long, or one another client has.  An *)
(* organization may be left without a domain, which is right for it.       *)
(***************************************************************************)
EXTENDS Naturals, Sequences, FiniteSets

CONSTANTS
  TypedLists,  \* keywords, cities
  ChosenLists, \* countries, industries
  Words,       \* what an analyst types or chooses
  Letter,      \* one of them: a single character
  Endless,     \* one of them: longer than a name may be
  MaxTyped,    \* the most keywords (30) or cities (50), in editor and schema
  MaxChosen,   \* the most countries or industries of the schema (30)
  MaxRelated,  \* the most related organizations of the schema (100)
  MaxRows      \* bound: related organizations in the form

ASSUME EditorsAssumption ==
  /\ IsFiniteSet(Words)
  /\ TypedLists \cap ChosenLists = {}
  /\ MaxTyped \in Nat /\ MaxChosen \in Nat /\ MaxRelated \in Nat

VARIABLES
  lists,       \* the lists of the form
  fields,      \* canonical_name and primary_domain
  related,     \* related_entities
  typed,       \* the texts of the editors, split at their commas
  menu,        \* the SearchSelect that is open, and whether its query hides an option
  verdict      \* history: what the server said to the form as it is

editorVars == <<lists, fields, related, typed, menu, verdict>>

Written == {"blank", "right", "wrong"}
Entities == [name : Words, domain : {"right", "wrong"}]

NoMenu == [of |-> "none", options |-> {}]

EditorsTypeOK ==
  /\ lists \in [TypedLists \cup ChosenLists -> SUBSET Words]
  /\ fields \in [name : Written, domain : Written]
  /\ \A i \in DOMAIN related : related[i] \in Entities
  /\ typed \in [TypedLists \cup {"related"} -> SUBSET Words]
  /\ menu.of \in ChosenLists \cup {"none"} /\ menu.options \subseteq Words
  /\ verdict \in {"none", "accepted", "refused"}

EditorsInit ==
  /\ lists = [l \in TypedLists \cup ChosenLists |-> {}]
  /\ fields = [name |-> "blank", domain |-> "blank"]
  /\ related = <<>>
  /\ typed = [l \in TypedLists \cup {"related"} |-> {}]
  /\ menu = NoMenu
  /\ verdict = "none"

\* The inputs of the name and of the domain, both of which the browser requires.
Fill ==
  /\ menu = NoMenu
  /\ \E name, domain \in {"right", "wrong"} : fields' = [name |-> name, domain |-> domain]
  /\ verdict' = "none"
  /\ UNCHANGED <<lists, related, typed, menu>>

\* A text: several words for a list, one for an organization's name.
Type(l) ==
  /\ menu = NoMenu
  /\ \E text \in SUBSET Words :
       /\ l = "related" => Cardinality(text) <= 1
       /\ typed' = [typed EXCEPT ![l] = text]
  /\ UNCHANGED <<lists, fields, related, menu, verdict>>

LongEnough(text) == text \ {Letter}

\* Mutant: the editor does not cut the list.
AddAll(l) ==
  /\ LongEnough(typed[l]) # {}
  /\ lists' = [lists EXCEPT ![l] = @ \cup LongEnough(typed[l])]
  /\ typed' = [typed EXCEPT ![l] = {}]
  /\ verdict' = "none"
  /\ UNCHANGED <<fields, related, menu>>

\* add of KeywordEditor and CityEditor: the first words that fit are kept, the
\* others are dropped without a word, and the text is cleared.
Add(l) ==
  /\ LongEnough(typed[l]) # {}
  /\ \E kept \in SUBSET (lists[l] \cup LongEnough(typed[l])) :
       /\ lists[l] \subseteq kept
       /\ Cardinality(kept) <= MaxTyped
       /\ \A w \in LongEnough(typed[l]) \ kept : Cardinality(kept) = MaxTyped
       /\ lists' = [lists EXCEPT ![l] = kept]
  /\ typed' = [typed EXCEPT ![l] = {}]
  /\ verdict' = "none"
  /\ UNCHANGED <<fields, related, menu>>

\* add of RelatedEntitiesEditor: any name, with any domain, as often as it is
\* added.
AddRelated ==
  /\ typed["related"] # {}
  /\ Len(related) < MaxRows
  /\ \E w \in typed["related"], domain \in {"right", "wrong"} :
       related' = Append(related, [name |-> w, domain |-> domain])
  /\ typed' = [typed EXCEPT !["related"] = {}]
  /\ verdict' = "none"
  /\ UNCHANGED <<lists, fields, menu>>

\* MultiSelectField offers what its list does not hold yet.
OpenMenu(l) ==
  /\ menu = NoMenu
  /\ menu' = [of |-> l, options |-> Words \ (lists[l] \cup {Letter})]
  /\ UNCHANGED <<lists, fields, related, typed, verdict>>

\* SearchSelect: a query narrows the options, a choice closes the menu.
Query ==
  /\ menu # NoMenu
  /\ \E w \in menu.options : menu' = [menu EXCEPT !.options = @ \ {w}]
  /\ UNCHANGED <<lists, fields, related, typed, verdict>>

Choose ==
  /\ menu # NoMenu
  /\ \E w \in menu.options : lists' = [lists EXCEPT ![menu.of] = @ \cup {w}]
  /\ menu' = NoMenu
  /\ verdict' = "none"
  /\ UNCHANGED <<fields, related, typed>>

CloseMenu ==
  /\ menu # NoMenu
  /\ menu' = NoMenu
  /\ UNCHANGED <<lists, fields, related, typed, verdict>>

\* The crosses of the entries.
Drop ==
  /\ menu = NoMenu
  /\ \/ /\ \E l \in DOMAIN lists : \E w \in lists[l] : lists' = [lists EXCEPT ![l] = @ \ {w}]
        /\ UNCHANGED related
     \/ /\ \E i \in DOMAIN related :
             related' = SubSeq(related, 1, i - 1) \o SubSeq(related, i + 1, Len(related))
        /\ UNCHANGED lists
  /\ verdict' = "none"
  /\ UNCHANGED <<fields, typed, menu>>

\* RelatedEntity.
ValidEntity(e) == e.name \notin {Letter, Endless} /\ e.domain # "wrong"

\* ClientCreate, the schema of POST /api/v1/clients, and the domain's uniqueness.
Valid ==
  /\ fields.name = "right" /\ fields.domain = "right"
  /\ \A l \in TypedLists : Cardinality(lists[l]) <= MaxTyped
  /\ \A l \in ChosenLists : Cardinality(lists[l]) <= MaxChosen
  /\ Len(related) <= MaxRelated
  /\ \A i \in DOMAIN related : ValidEntity(related[i])

\* The form is submitted without the texts that were typed and not added.
Submit ==
  /\ menu = NoMenu /\ verdict = "none"
  /\ "blank" \notin {fields.name, fields.domain}
  /\ verdict' = IF Valid THEN "accepted" ELSE "refused"
  /\ UNCHANGED <<lists, fields, related, typed, menu>>

EditorsNext ==
  \/ Fill
  \/ \E l \in TypedLists \cup {"related"} : Type(l)
  \/ \E l \in TypedLists : Add(l)
  \/ AddRelated
  \/ \E l \in ChosenLists : OpenMenu(l)
  \/ Query \/ Choose \/ CloseMenu \/ Drop \/ Submit

-----------------------------------------------------------------------------
(* Properties. *)

\* The server refuses a form only for what its inputs do not check: a name that
\* is too long, a domain of the wrong form or of another client, an organization
\* with such a name or domain or with a name of one letter, or too many countries,
\* industries or related organizations.  What KeywordEditor and CityEditor let
\* through is never the reason.
OnlyUncheckedInputIsRefused ==
  verdict = "refused" =>
    \/ fields.name = "wrong" \/ fields.domain = "wrong"
    \/ \E i \in DOMAIN related : ~ValidEntity(related[i])
    \/ \E l \in ChosenLists : Cardinality(lists[l]) > MaxChosen
    \/ Len(related) > MaxRelated

=============================================================================
