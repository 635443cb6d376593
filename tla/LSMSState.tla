------------------------------ MODULE LSMSState ------------------------------
(***************************************************************************)
(* What the sketch and the main thread share of a message that comes in     *)
(* (libraries/LGSM/LSMS.cpp), and what must be true of it.  LSMS has the     *)
(* steps.                                                                   *)
(***************************************************************************)
EXTENDS SketchCall, Sequences

CONSTANTS Ids,      \* message ids
          NoId      \* -1, and the buffers before the first message

VARIABLES
    msgRead,      \* msgRead.id
    buf,          \* g_linkit_sms_number_buf and g_linkit_sms_content_buf
    msgNewFlag,
    _msgId, _msgContent,   \* the sketch's current message
    taking,       \* the next step of available(), "none" outside it
    box,          \* the service's inbox: whether the sketch has been given the text,
                  \* or the text could not be read
    reads         \* requests to read a message that are not answered

globals == <<msgRead, buf, msgNewFlag>>

\* The sketch is in no method.
Outside == call = None /\ taking = "none"

\* The text available() hands out is the text of the message whose id it keeps, and
\* which flush() will delete, though the two are read and written one at a time.
CurrentMatches == taking = "none" /\ _msgId # NoId => _msgContent = _msgId

\* No message that came in and could be read goes unannounced: when available() has
\* nothing new and nothing is being read, the sketch has been given every message.
NoneForgotten ==
    Outside /\ ~msgNewFlag /\ reads = << >> => \A id \in Ids : box[id] # "unseen"
=============================================================================
