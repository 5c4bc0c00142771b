----------------------------- MODULE StringArray -----------------------------
(***************************************************************************)
(* The third field of a communication string (icom/src/string_parser.c):   *)
(* addresses between commas, where brackets stand for several of them, as  *)
(* in "ip:1,ip:[2-4],ip:[5,6]".  The parser goes over it twice: once to    *)
(* count the addresses, cutting at each comma, and once to write them,     *)
(* cutting only at the commas outside brackets.                            *)
(***************************************************************************)
EXTENDS Integers, SequencesExt

CONSTANTS
  Port,        \* the numbers in addresses
  Malformed,   \* a string the scan of "ip:port" refuses
  NotAnIp      \* one that scans, but not as an IP address

Address == Port \cup {Malformed, NotAnIp}

\* What the user writes: an address, or the members of a bracket, listed or as
\* first and last.
Entry == [kind : {"plain", "list", "range"}, ids : Seq(Address)]

WellFormed(e) ==
  CASE e.kind = "plain" -> Len(e.ids) = 1
    [] e.kind = "list"  -> e.ids # <<>> /\ \A i \in DOMAIN e.ids : e.ids[i] \in Port
    [] e.kind = "range" -> /\ Len(e.ids) = 2 /\ e.ids[1] \in Port /\ e.ids[2] \in Port
                           /\ e.ids[1] <= e.ids[2]
                           /\ e.ids[1]..e.ids[2] \subseteq Port

\* The addresses that are meant.
Listed(e) ==
  IF e.kind = "range"
  THEN [n \in 1..(e.ids[2] - e.ids[1] + 1) |-> e.ids[1] + n - 1]
  ELSE e.ids

Meant(entries) == FlattenSeq([i \in DOMAIN entries |-> Listed(entries[i])])

-----------------------------------------------------------------------------
(* The string: what stands between two commas.                             *)

\* [prefix] "[" from "-" to "]": has it a prefix, brackets, a dash?
Piece == [prefix : BOOLEAN, open : BOOLEAN, from : Address, dash : BOOLEAN,
          to : Address, close : BOOLEAN]

Pieces(e) ==
  IF e.kind = "range"
  THEN <<[prefix |-> TRUE, open |-> TRUE, from |-> e.ids[1], dash |-> TRUE,
          to |-> e.ids[2], close |-> TRUE]>>
  ELSE [i \in DOMAIN e.ids |->
         [prefix |-> i = 1, open |-> e.kind = "list" /\ i = 1,
          from |-> e.ids[i], dash |-> FALSE, to |-> e.ids[i],
          close |-> e.kind = "list" /\ i = Len(e.ids)]]

Text(entries) == FlattenSeq([i \in DOMAIN entries |-> Pieces(entries[i])])

-----------------------------------------------------------------------------
(* The parser.                                                             *)

\* Mutant: a range counts for the distance of its ends.
MembersExclusive(p) == IF p.open /\ p.dash THEN p.to - p.from ELSE 1

\* What sscanf("%*[^[][%d-%d]") tells of a piece.
Members(p) == IF p.open /\ p.dash THEN p.to - p.from + 1 ELSE 1

GetConnectionCount(text) ==
  LET strCount[i \in 0..Len(text)] ==
        IF i = 0 THEN 0 ELSE strCount[i - 1] + Members(text[i])
  IN  strCount[Len(text)]

\* Mutant: a candidate ends at the next comma.
CandidateEndAtComma(text, i) == i

\* The candidate that starts at piece i ends with the first "]", if it has a "[".
CandidateEnd(text, i) ==
  LET closing == {j \in i..Len(text) : text[j].close}
  IN  IF text[i].open /\ closing # {}
      THEN CHOOSE j \in closing : \A k \in closing : j <= k
      ELSE i

\* The strings written for the candidate: the prefix is put before every id of
\* a bracket, any other candidate is an address as it stands.
Expand(candidate) ==
  LET p == candidate[1]
  IN  CASE ~p.open             -> <<IF p.prefix THEN p.from ELSE Malformed>>
        [] p.open /\ p.dash    -> [n \in 1..(p.to - p.from + 1) |-> p.from + n - 1]
        [] p.open /\ ~p.dash   -> [k \in DOMAIN candidate |-> candidate[k].from]

InitStrArray(text) ==
  LET strArray[i \in 1..(Len(text) + 1)] ==
        IF i > Len(text) THEN <<>>
        ELSE LET stop == CandidateEnd(text, i)
             IN  Expand(SubSeq(text, i, stop)) \o strArray[stop + 1]
  IN  strArray[1]
=============================================================================
