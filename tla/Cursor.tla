------------------------------- MODULE Cursor --------------------------------
(***************************************************************************)
(* What a forward-only cursor promises the application, without bindings,  *)
(* conversions or diagnostics: a result of "total" rows is opened, each of *)
(* its rows is announced once and in order, its end is announced only      *)
(* after the last row, and nothing is announced of a closed result.        *)
(***************************************************************************)
EXTENDS Naturals

VARIABLES open,      \* there is a result
          total,     \* its number of rows
          position,  \* how many of them have been announced
          exhausted, \* its end has been announced
          told       \* what the last call announced: nothing, a row or the end

cursorVars == <<open, total, position, exhausted, told>>

Init == /\ open = FALSE
        /\ total = 0
        /\ position = 0
        /\ exhausted = FALSE
        /\ told = "nothing"

Open == /\ open' = TRUE
        /\ total' \in Nat
        /\ position' = 0
        /\ exhausted' = FALSE
        /\ told' = "nothing"

Close == /\ open' = FALSE
         /\ total' = 0
         /\ position' = 0
         /\ exhausted' = FALSE
         /\ told' = "nothing"

Deliver == /\ open /\ ~exhausted
           /\ position < total
           /\ position' = position + 1
           /\ told' = "row"
           /\ UNCHANGED <<open, total, exhausted>>

Exhaust == /\ open
           /\ position = total
           /\ exhausted' = TRUE
           /\ told' = "end"
           /\ UNCHANGED <<open, total, position>>

\* Any other call.
Other == /\ told' = "nothing"
         /\ UNCHANGED <<open, total, position, exhausted>>

Next == Open \/ Close \/ Deliver \/ Exhaust \/ Other

Spec == Init /\ [][Next]_cursorVars
=============================================================================
