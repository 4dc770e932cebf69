-------------------------------- MODULE Selector -------------------------------
(***************************************************************************)
(* Selectors of the client (selector.ts): labels in the order they were    *)
(* added, and the set that is made of them, sorted with sortBy (util.ts).  *)
(* A string is the sequence of its code units.                             *)
(***************************************************************************)
EXTENDS Integers, Sequences, FiniteSetsExt, SequencesExt, Messages

CONSTANT Slash  \* the code unit of "/"

(* The names of labels.  Only their alphabetical order matters here.       *)
Collection == <<1>>  \* estuary.dev/collection
Name       == <<2>>  \* name
Prefix     == <<3>>  \* prefix
TaskName   == <<1>>  \* estuary.dev/task-name
Id         == <<2>>  \* id

(* The order of `<` on strings.                                            *)
Less(s, t) ==
  \/ IsStrictPrefix(s, t)
  \/ \E i \in DOMAIN s \cap DOMAIN t :
       s[i] < t[i] /\ SubSeq(s, 1, i - 1) = SubSeq(t, 1, i - 1)

(* Mutant: fields after the first are not looked at.                       *)
SortByFirst(fields, a, b) ==
  LET x == a[fields[1]]
      y == b[fields[1]]
  IN  IF Less(y, x) THEN 1 ELSE IF Less(x, y) THEN -1 ELSE 0

(* The first field that differs decides.                                   *)
SortBy(fields, a, b) ==
  LET differ == {i \in DOMAIN fields : a[fields[i]] # b[fields[i]]}
      f == fields[Min(differ)]
  IN  IF differ = {} THEN 0 ELSE IF Less(b[f], a[f]) THEN 1 ELSE -1

(* Where the labels are when Array.prototype.sort has sorted them; those   *)
(* that compare alike stay as they were.                                   *)
SortOrder(labels) ==
  LET I == DOMAIN labels
      Compare(j, k) == SortBy(<<"name", "value">>, labels[j], labels[k])
  IN  CHOOSE p \in Bijection(I, I) :
        \A j, k \in I : j < k =>
          \/ Compare(p[j], p[k]) < 0
          \/ Compare(p[j], p[k]) = 0 /\ p[j] < p[k]

(* this.labels.slice(0).sort(sortBy("name", "value"))                      *)
ToLabelSet(selector) ==
  LET p == SortOrder(selector)
  IN  LabelSet([k \in DOMAIN selector |-> selector[p[k]]])

(* new JournalSelector() and new ShardSelector()                           *)
NewSelector == <<>>

(* selector.collection(v), .name(v), .task(v) and .id(v)                   *)
Push(selector, name, v) == Append(selector, Label(name, v))

(* Mutant: the prefix is taken as it is given.                             *)
SelectPrefixAsIs(v) == Push(NewSelector, Prefix, v)

(* JournalSelector.prefix(v)                                               *)
SelectPrefix(v) ==
  LET ended == v # <<>> /\ Last(v) = Slash
  IN  Push(NewSelector, Prefix, IF ended THEN v ELSE Append(v, Slash))
================================================================================
