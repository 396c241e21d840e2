---------------------------- MODULE TracedTapping ----------------------------
(* Tapping with two history variables: acted says which keys have been     *)
(* pressed and not released by what was processed; disturbed becomes TRUE, *)
(* and ends the behaviour, with the first of the four steps that lose the  *)
(* pairing of press and release.                                           *)
EXTENDS Tapping

VARIABLES acted, disturbed

tracedVars == <<vars, acted, disturbed>>

TracedInit == Init /\ acted = {} /\ disturbed = FALSE

ActedBy(records) ==
    FoldLeft(LAMBDA keys, r : IF r.pressed THEN keys \cup {r.key} ELSE keys \ {r.key},
             acted, records)

Step ==
    /\ ~disturbed
    /\ Next
    /\ acted' = ActedBy(out')
    /\ disturbed' = (Overflow \/ Overtaking \/ PressedAgain \/ Mispaired)

Stop == disturbed /\ UNCHANGED tracedVars

TracedSpec == TracedInit /\ [][Step \/ Stop]_tracedVars /\ Fairness

\* KeysAreHeld, as long as the records are undisturbed.
KeysHeldUndisturbed == disturbed \/ KeysAreHeld

\* LayersAreHeld, as long as the records are undisturbed.
LayersHeldUndisturbed == disturbed \/ LayersAreHeld

\* InOrder in every step that does not disturb the records.
InOrderUndisturbed == [][disturbed' \/ InOrder]_vars

\* Decided: tap or hold is decided in the end, unless the records are disturbed.
DecidedUndisturbed ==
    \A p \in Positions :
        (UndecidedKey = <<p>>) ~> (UndecidedKey # <<p>> \/ MayStop \/ disturbed)

(* A key is released once for each press: the release that ends a one-shot *)
(* layer takes the place of the one at the key's own release, which would  *)
(* find another layer ("we need to release the key before we leave the     *)
(* layer or no key up event will be generated", action.c:780).             *)
OneKeyUp ==
    [][\A i \in DOMAIN out' : ~out'[i].pressed =>
          out'[i].key \in acted \cup {out'[j].key : j \in {j \in 1..i - 1 : out'[j].pressed}}]_vars
=============================================================================
