----------------------------- MODULE FlatValues -----------------------------
(***************************************************************************)
(* The conversions of what is not nested, one at a time: an input is       *)
(* given, and what the code makes of it, and of that on the way back, is   *)
(* compared.  A message's text is given to the hash piece by piece.        *)
(***************************************************************************)
EXTENDS WireFormat, Digest, SvgStyle

CONSTANTS
  Requests,      \* frames of a message
  SigningKeys,   \* signing keys
  Dialogues,     \* the four dicts of a request
  Replies,       \* [content, buffers]
  Pieces,        \* sizes of pieces
  MaxPieces,     \* bound: pieces of one message
  Shapes,        \* SVG elements
  Contexts       \* graphics contexts

ASSUME MessagesAssumption ==
  /\ \A f \in Requests : f \in Seq(ToSet(f))
  /\ \A m \in Dialogues : m = [p \in ToSet(Parts) |-> m[p]]
  /\ \A a \in Replies : a.buffers \in Seq(ToSet(a.buffers))

ASSUME PiecesAssumption == Pieces \subseteq Nat /\ MaxPieces \in Nat

IsColor(col) == col = [rgb |-> col.rgb, alpha |-> col.alpha]

\* R's graphics contexts: lty packs at most eight dashes, none for a solid line
ASSUME ShapesAssumption ==
  /\ Shapes \subseteq {"line", "polyline", "polygon", "path", "rect", "circle", "text"}
  /\ \A gc \in Contexts :
       /\ IsColor(gc.col) /\ IsColor(gc.fill)
       /\ gc.lwd \in Nat
       /\ gc.lty \in Seq(Nat) /\ Len(gc.lty) <= 8
       /\ gc.ljoin \in {"round", "bevel", "miter"}

VARIABLE given   \* the input, [kind, of]

flatVars == <<given, hasher, fed>>

Given(kind, of) == given' = [kind |-> kind, of |-> of]

FlatInit ==
  /\ given = [kind |-> "nothing", of |-> <<>>]
  /\ DigestInit

GiveMessage == \E f \in Requests, k \in SigningKeys, a \in Replies : Given("message", <<f, k, a>>)
GiveDialogue == \E m \in Dialogues, k \in SigningKeys, a \in Replies : Given("dialogue", <<m, k, a>>)
GiveShape == \E e \in Shapes, gc \in Contexts : Given("shape", <<e, gc>>)

\* the next piece of a message, after those in 'of'
GivePiece ==
  /\ given.kind \in {"nothing", "pieces"}
  /\ Len(given.of) < MaxPieces
  /\ \E n \in Pieces :
       /\ Add([k \in 1..n |-> <<"byte", Len(fed) + k>>])
       /\ Given("pieces", Append(given.of, n))

FlatNext ==
  \/ /\ given.kind = "nothing"
     /\ GiveMessage \/ GiveDialogue \/ GiveShape
     /\ UNCHANGED <<hasher, fed>>
  \/ GivePiece

FlatSpec == FlatInit /\ [][FlatNext]_flatVars

-----------------------------------------------------------------------------
(* Properties.                                                             *)

(* A message is read if and only if the signature is that of its dicts'    *)
(* texts as they came, however the client spaced them; cut short before    *)
(* its last dict it is not, cut short after it nobody notices.  It is      *)
(* replied to if and only if its header names a user and a session; the    *)
(* reply reaches the same peers, who read the request's header, content    *)
(* and buffers, and messages on one socket do not run together.  The       *)
(* messages that the test client builds and takes apart by itself are such *)
(* messages; and the hash that is signed is that of the whole text, padded *)
(* as SHA-256 defines, however the text is cut into pieces.                *)
(* (jmessage.h:56-85, 119-203; shell.h:37-68; zmq_addon.hpp:123-150;       *)
(* json.hpp:10393-10403; sha256.h:313-419)                                 *)
MessagesKept ==
  /\ given.kind = "message" =>
       MessageKept(given.of[1], given.of[2], given.of[3].content, given.of[3].buffers)
  /\ given.kind = "dialogue" =>
       DialogueKept(given.of[1], given.of[2], given.of[3].content, given.of[3].buffers)
  /\ given.kind = "pieces" => DigestKept

(* What a browser makes of an element, with the page's defaults for what   *)
(* the device leaves out, is what R asked for.  (gdevice.h:180-290,        *)
(* 370-388, 415-513)                                                       *)
StylesAsAsked ==
  given.kind = "shape" =>
    LET e == given.of[1] gc == given.of[2] IN
    IF e = "text"
    THEN TextAsAsked(gc, [f \in {} |-> ""], [f \in {} |-> ""])
    ELSE StyleAsAsked(e, gc)
=============================================================================
