--------------------------- MODULE InferEngineApi ---------------------------
(* infer_engine_api: create_engine makes the engine of the platform, and    *)
(* run_engine and destroy_engine work on whichever it made.  Composes the   *)
(* three engines, of which one is there, and states what they have in       *)
(* common.                                                                  *)
EXTENDS EngineNNIE

VARIABLES g_is_init, m_graph, tensors   \* those of EngineTengine
VARIABLES m_ctx, m_outputs, bufs        \* those of EngineRKNN

Tengine == INSTANCE EngineTengine
RKNN == INSTANCE EngineRKNN

ownTengine == <<g_is_init, m_graph, tensors>>
ownRKNN == <<m_ctx, m_outputs, bufs>>
varsApi == <<base, ownNNIE, ownTengine, ownRKNN>>

InitApi ==
    \/ Init /\ Tengine!Absent /\ RKNN!Absent
    \/ Tengine!Init /\ Fresh("zero") /\ RKNN!Absent
    \/ RKNN!Init /\ Fresh("zero") /\ Tengine!Absent

NextApi ==
    \/ board = "hisi" /\ Next /\ UNCHANGED <<ownTengine, ownRKNN>>
    \/ board \in {"x86", "rk"} /\ Tengine!Next /\ UNCHANGED <<ownNNIE, ownRKNN>>
    \/ board = "rv" /\ RKNN!Next /\ UNCHANGED <<ownNNIE, ownTengine>>

\* The caller's thread goes on inside a call, and the calls of the host's
\* libraries return.  The accelerator owes nothing.
InCall ==
    \/ board = "hisi" /\ (CreateStep \/ RunStep)
    \/ board \in {"x86", "rk"} /\ (Tengine!CreateStep \/ Tengine!RunStep)
    \/ board = "rv" /\ (RKNN!CreateStep \/ RKNN!RunStep)

SpecApi == InitApi /\ [][NextApi]_varsApi /\ WF_varsApi(NextApi /\ InCall)

-----------------------------------------------------------------------------
(* Properties *)

\* Types of all three.
TypesOK == TypeOK /\ Tengine!TypeOK /\ RKNN!TypeOK

\* A caller that heeds return codes, releases once and takes images with the
\* channels of the model meets undefined behaviour at the known places of its
\* platform only, each of which is named with its lines where it is defined.
DefinedForCareful ==
    careful /\ undefined =>
        CASE board = "hisi" -> Trap
          [] board \in {"x86", "rk"} -> Tengine!Trap
          [] board = "rv" -> RKNN!Trap

\* The engine of the platform can answer.
AliveEngine ==
    CASE board = "hisi" -> Alive
      [] board \in {"x86", "rk"} -> Tengine!Alive
      [] board = "rv" -> RKNN!Alive

\* Its outputs have places for all values: not the empty blobs EngineNNIE hands
\* out (engine_nnie.cpp:356, 390), nor blobs of EngineRKNN that are larger than
\* the outputs.
AnswersAtAll ==
    CASE board = "hisi" -> FALSE
      [] board \in {"x86", "rk"} -> TRUE
      [] board = "rv" -> \A i \in DOMAIN model.out : RKNN!Whole(model.out[i])

InAnyCall == pc \notin {"idle", "gone"} /\ ~undefined

Contract == INSTANCE InferEngine WITH
    ready <- init_code = "success" /\ AliveEngine,
    gives <- init_code = "success" /\ AnswersAtAll,
    busy <- InAnyCall,
    asked <- runs,
    told <- pc \in {"idle", "gone"} /\ runs > 0 /\ code = "success",
    answer <- answer

\* Each engine keeps the contract of the API: a success of an engine that gives
\* answers hands out the values of the image just given in every output, a
\* success of EngineNNIE hands out none, a failure leaves the answers alone and
\* every call returns, whichever calls of the libraries fail
\* (engine_nnie.cpp:550-622, engine_tengine.cpp:111-143,
\* engine_rknn.cpp:160-209, infer_engine_api.cpp:53-68).
ImplementsContract == Contract!Spec
=============================================================================
