------------------------------ MODULE UnitList ------------------------------
(***************************************************************************)
(* How a list of units is filtered and cut into pages:                     *)
(* backend/systemd/manager.rs and the cursor of linux.rs.  A text is a     *)
(* sequence of characters, a unit a record with at least a name and a      *)
(* state.  Beside the matcher stands what it is to compute.                *)
(***************************************************************************)
EXTENDS Ordered

\* Optional things: no cursor, no state; a glob is << >> or <<pattern>>.
NoPage   == -1
AnyState == "any"

\* Where the loop of glob_matches is: positions in pattern and text, and where the
\* last "*" ends in the one (0: none yet) and began to match in the other.
Spots(pattern, text) ==
    {at \in [p : 1..Len(pattern) + 1, t : 1..Len(text) + 1,
             star : 0..Len(pattern) + 1, mark : 0..Len(text) + 1] : at.mark <= at.t}

\* A slip: the text is not tried again one character further on.
GlobGivesUp(pattern, text) ==
    LET loop[at \in Spots(pattern, text)] ==
        IF at.t > Len(text) THEN at
        ELSE IF at.p <= Len(pattern) /\ pattern[at.p] \in {"?", text[at.t]}
        THEN loop[[at EXCEPT !.p = @ + 1, !.t = @ + 1]]
        ELSE IF at.p <= Len(pattern) /\ pattern[at.p] = "*"
        THEN loop[[at EXCEPT !.p = @ + 1, !.star = at.p + 1, !.mark = at.t]]
        ELSE at
        end == loop[[p |-> 1, t |-> 1, star |-> 0, mark |-> 0]]
    IN  end.t > Len(text) /\ \A i \in end.p..Len(pattern) : pattern[i] = "*"

\* What is left of the pattern at the end of the text must be "*"; a loop that ends
\* before has found no match.
GlobMatches(pattern, text) ==
    LET loop[at \in Spots(pattern, text)] ==
        IF at.t > Len(text) THEN at
        ELSE IF at.p <= Len(pattern) /\ pattern[at.p] \in {"?", text[at.t]}
        THEN loop[[at EXCEPT !.p = @ + 1, !.t = @ + 1]]
        ELSE IF at.p <= Len(pattern) /\ pattern[at.p] = "*"
        THEN loop[[at EXCEPT !.p = @ + 1, !.star = at.p + 1, !.mark = at.t]]
        ELSE IF at.star # 0
        THEN loop[[at EXCEPT !.p = at.star, !.t = at.mark + 1, !.mark = @ + 1]]
        ELSE at
        end == loop[[p |-> 1, t |-> 1, star |-> 0, mark |-> 0]]
    IN  end.t > Len(text) /\ \A i \in end.p..Len(pattern) : pattern[i] = "*"

\* What it is to compute: the text can be cut into one piece for every
\* character of the pattern, a "*" taking any piece, another a fitting one.
Glob(pattern, text) ==
    \E cut \in [0..Len(pattern) -> 0..Len(text)] :
        /\ cut[0] = 0 /\ cut[Len(pattern)] = Len(text)
        /\ \A i \in 1..Len(pattern) :
             \/ pattern[i] = "*" /\ cut[i] >= cut[i - 1]
             \/ cut[i] = cut[i - 1] + 1 /\ pattern[i] \in {"?", text[cut[i]]}

\* By state and by glob, each when given.
ListFilter(units, state, glob) ==
    Kept(units, {i \in DOMAIN units :
                    /\ state # AnyState => units[i].state = state
                    /\ glob # << >> => GlobMatches(glob[1], units[i].name)})

\* A slip: the cursor points behind the first unit of the next page.
PaginateSkips(items, start, size) ==
    LET begin == IF start < Len(items) THEN start ELSE Len(items)
        end   == IF begin + size < Len(items) THEN begin + size ELSE Len(items)
    IN  [page |-> SubSeq(items, begin + 1, end),
         next |-> IF end < Len(items) THEN end + 1 ELSE NoPage]

\* From a caller's index, whatever it is.
Paginate(items, start, size) ==
    LET begin == IF start < Len(items) THEN start ELSE Len(items)
        end   == IF begin + size < Len(items) THEN begin + size ELSE Len(items)
    IN  [page |-> SubSeq(items, begin + 1, end),
         next |-> IF end < Len(items) THEN end ELSE NoPage]

\* A cursor that is not a number is as good as none.
CursorToIdx(cursor) == IF cursor \in Nat THEN cursor ELSE 0
=============================================================================
