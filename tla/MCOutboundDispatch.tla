------------------------- MODULE MCOutboundDispatch -------------------------
(* A streamed answer in one chat, replies in another, two channels of three. *)
EXTENDS OutboundDispatch

CONSTANTS chatA, chatB, chanA, chanB, chanC

TheChats    == {chatA, chatB}
TheChannels == {chanA, chanB, chanC}
Apart       == (chatA :> chanA) @@ (chatB :> chanB)

Delta(s)  == [kind |-> "delta", stream |-> s, origin |-> 0, id |-> 0, body |-> 0]
End(s)    == [Delta(s) EXCEPT !.kind = "end"]
Text(o, b) == [Delta(0) EXCEPT !.kind = "text", !.origin = o, !.body = b]

StreamAndReplies ==
  (chatA :> <<Delta(1), Delta(2), End(2)>>) @@
  (chatB :> <<Text(1, 1), Text(1, 1)>>)
=============================================================================
