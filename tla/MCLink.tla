------------------------------- MODULE MCLink -------------------------------
(***************************************************************************)
(* What two machines say to each other: a picture route with its control   *)
(* channel (RouteLink) and its units (VideoPipe), and support dials with   *)
(* the customer's answers (SupportDial).  Control and units meet only      *)
(* where the route ends and begins, which VideoPipe has as Rebound; a dial *)
(* comes before any route.  So a behaviour here is one of a single         *)
(* `subject', the others keep their first states.                          *)
(***************************************************************************)
EXTENDS RouteLink, VideoPipe, SupportDial

VARIABLE subject   \* which of the three this behaviour is about

mcVars == <<vars, videoVars, dialVars, subject>>

OnControl(A) == subject = "control" /\ A /\ UNCHANGED <<videoVars, dialVars, subject>>
OnPicture(A) == subject = "picture" /\ A /\ UNCHANGED <<vars, dialVars, subject>>
OnDial(A)    == subject = "dial" /\ A /\ UNCHANGED <<vars, videoVars, subject>>

MCInit ==
    /\ Init /\ VideoInit /\ DialInit
    /\ subject = "picture" \/ (subject \in {"control", "dial"} /\ ~gradual)

MCNext == OnControl(Next) \/ OnPicture(VideoNext) \/ OnDial(DialNext)

MCSafety == MCInit /\ [][MCNext]_mcVars

(* The fairness of control and picture.  RouteLink's first state enables    *)
(* none of its fair actions, so that its part holds while the picture is at *)
(* work.                                                                    *)
PictureFairness ==
    /\ WF_mcVars(OnPicture(Arrive))
    /\ WF_mcVars(OnPicture(Follow))
    /\ \A a \in Asker : /\ WF_mcVars(OnPicture(Ask(a)))
                        /\ WF_mcVars(OnPicture(Answered(a, TRUE) \/ Answered(a, FALSE)))
    /\ SF_mcVars(OnPicture(Answered("worker", TRUE)))
    /\ WF_mcVars(OnPicture(Rested))
    /\ WF_mcVars(OnPicture(QuietEnds))

MCSpec == MCSafety /\ Fairness /\ PictureFairness

\* The two route records with their messages, the picture's queue and fences, the dials and
\* the words between them have only the shapes their code makes.
LinkShapesOK == TypeOK /\ VideoTypeOK /\ DialTypeOK
=============================================================================
