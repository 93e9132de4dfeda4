------------------------------ MODULE MCRanges ------------------------------
(* Parameters for model checking Ranges: small pages.                      *)
EXTENDS Ranges, TLC

MCNodes == 1 .. 11

(* A page by the children of its elements and the characters of its texts. *)
Page(kids, chars) ==
  [kind  |-> [n \in MCNodes |-> IF n \in DOMAIN kids THEN "element" ELSE IF n \in DOMAIN chars THEN "text" ELSE "free"],
   tag   |-> [n \in MCNodes |-> IF n = 4 THEN "p" ELSE "div"],
   up    |-> [n \in MCNodes |-> IF \E m \in DOMAIN kids : Contains(kids[m], n)
                                THEN CHOOSE m \in DOMAIN kids : Contains(kids[m], n) ELSE None],
   kids  |-> [n \in MCNodes |-> IF n \in DOMAIN kids THEN kids[n] ELSE <<>>],
   chars |-> [n \in MCNodes |-> IF n \in DOMAIN chars THEN chars[n] ELSE <<>>]]

(* A text with a paragraph behind it, and one outside; two neighbours.     *)
MCPages == {
  Page(<<<<2, 6>>, <<4, 3>>, <<5>>>>, 4 :> <<1>> @@ 5 :> <<2, 3>> @@ 6 :> <<4>>),
  Page(<<<<2>>, <<3, 4>>, <<5>>, <<6>>>>, 5 :> <<1, 2, 3>> @@ 6 :> <<4>>)}
=============================================================================
