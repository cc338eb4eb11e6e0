------------------------------- MODULE Citations -------------------------------
(***************************************************************************)
(* The citation markers of a summary: how api/summary.py names the sources *)
(* it hands to the model and finds their markers in its answer, and how    *)
(* web/lib/summary.ts finds them again to link them.                       *)
(*                                                                         *)
(* Text is a sequence of pieces, what a split at commas leaves; a piece is *)
(* a sequence of words, each with a number: 0 in a title, n in the "(n)"   *)
(* of a label and in the ":n" of a marker.                                 *)
(***************************************************************************)
EXTENDS Naturals, Sequences, FiniteSets, Lists

Suffix(n) == <<"again", n>>
Index(n) == <<"chunk", n>>
AddWord(text, word) == [text EXCEPT ![Len(text)] = Append(@, word)]

Before(s, i) == {s[j] : j \in 1 .. i - 1}

(* Mutant: the number of a title is how often it came before.              *)
LabelsByCount(titles) ==
    LET same(i) == Cardinality({j \in 1 .. i - 1 : titles[j] = titles[i]})
    IN [i \in 1 .. Len(titles) |->
          IF same(i) = 0 THEN titles[i] ELSE AddWord(titles[i], Suffix(same(i) + 1))]

(* _assign_book_labels for the distinct books of the hits, in their order: *)
(* a label in use gets the first suffix that makes it new.                 *)
NewLabel(labels, title, i) ==
    LET used == Before(labels, i)
        free == {n \in 2 .. i + 1 : AddWord(title, Suffix(n)) \notin used}
        least == CHOOSE n \in free : \A k \in free : n <= k
    IN IF title \notin used THEN title ELSE AddWord(title, Suffix(least))
Labels(titles) ==
    LET L[i \in 0 .. Len(titles)] ==
          IF i = 0 THEN <<>> ELSE Append(L[i - 1], NewLabel(L[i - 1], titles[i], i))
    IN L[Len(titles)]

(* _build_sources: the marker of a chunk, without its brackets.            *)
Marker(label, chunk) == AddWord(label, Index(chunk))

MatchesAt(inner, p, marker) ==
    p + Len(marker) - 1 <= Len(inner) /\ SubSeq(inner, p, p + Len(marker) - 1) = marker

(* _resolve_group_members: at each comma the longest marker that fits.     *)
Resolve(inner, markers) ==
    LET From[p \in Nat] ==
          IF p > Len(inner) THEN <<>>
          ELSE LET here == {m \in markers : MatchesAt(inner, p, m)}
                   best == CHOOSE m \in here : \A k \in here : Len(k) <= Len(m)
               IN IF here = {} THEN From[p + 1] ELSE <<best>> \o From[p + Len(best)]
    IN From[1]

(* _extract_citations: the groups in turn, each marker once.               *)
Added(cited, new) ==
    LET A[j \in 0 .. Len(new)] ==
          IF j = 0 THEN cited
          ELSE IF new[j] \in Elements(A[j - 1]) THEN A[j - 1] ELSE Append(A[j - 1], new[j])
    IN A[Len(new)]
Citations(groups, markers) ==
    LET C[i \in 0 .. Len(groups)] ==
          IF i = 0 THEN <<>> ELSE Added(C[i - 1], Resolve(groups[i], markers))
    IN C[Len(groups)]

(* segmentSummary: a group that is a marker, or the pieces of it that are. *)
Chips(inner, citations) ==
    LET known == Elements(citations)
    IN IF inner \in known THEN <<inner>>
       ELSE IF Len(inner) < 2 THEN <<>>
       ELSE SelectSeq([p \in 1 .. Len(inner) |-> <<inner[p]>>], LAMBDA piece : piece \in known)

Join(members) == JoinUpTo(members)[Len(members)]

-----------------------------------------------------------------------------
(* The markers of the sources: each a book of titles and a chunk of it.    *)
Markers(titles, sources) == {Marker(Labels(titles)[s[1]], s[2]) : s \in sources}

(* The source a member is taken for: itself if it is one, or else that of  *)
(* its longest end after a comma which is one.                             *)
Ends(member) == {SubSeq(member, j, Len(member)) : j \in 1 .. Len(member)}
TakenFor(member, markers) ==
    LET named == Ends(member) \cap markers
    IN IF named = {} THEN <<>>
       ELSE <<CHOOSE m \in named : \A k \in named : Len(k) <= Len(m)>>

(* Two sources never share a marker; a group the model wrote, whatever     *)
(* commas its titles hold, cites what its members are taken for, in their  *)
(* order, and the summary cites each once.  So a member that is a source   *)
(* is cited, and a made-up one cites nothing unless the end of its label,  *)
(* from a comma on, is a source's label with that source's number.         *)
CitationsTellTheSources(titles, sources, members) ==
    LET markers == Markers(titles, sources)
        taken == [i \in 1 .. Len(members) |-> TakenFor(members[i], markers)]
    IN /\ Cardinality(markers) = Cardinality(sources)
       /\ Resolve(Join(members), markers) = Join(taken)
       /\ \A i \in 1 .. Len(members) :
            LET cited == Citations(<<Join(members), members[i]>>, markers)
            IN /\ Elements(cited) = UNION {Elements(taken[k]) : k \in 1 .. Len(members)}
               /\ \A j, k \in 1 .. Len(cited) : cited[j] = cited[k] => j = k

(* "an invented member can't fabricate a citation" (api/summary.py): it    *)
(* does not hold of one whose label ends, after a comma, in a source's     *)
(* (README, section 10).                                                   *)
InventedMembersCiteNothing(titles, sources, members) ==
    LET markers == Markers(titles, sources)
    IN Elements(Resolve(Join(members), markers)) = Elements(members) \cap markers

(* "each member that resolves to a returned citation becomes its own       *)
(* linked chip" (web/lib/summary.ts).                                      *)
EveryCitationHasItsChip(titles, sources, members) ==
    LET markers == Markers(titles, sources)
        cited == Citations(<<Join(members)>>, markers)
        chips == Chips(Join(members), cited)
    IN Elements(cited) = Elements(chips)
=============================================================================
