---------------------------- MODULE MCCecConsent ----------------------------
(* Two technicians, the first of whom dials twice. *)
EXTENDS CecConsent

CONSTANTS alice, bob, a1, a2, b1

MCDialer == [s \in {a1, a2, b1} |-> IF s = b1 THEN bob ELSE alice]

\* The window and the fleet's approval give three hours with control.
MCAnswers == {<<"once", FALSE>>, <<"forever", TRUE>>}
MCOnce    == {<<"once", FALSE>>}

=============================================================================
