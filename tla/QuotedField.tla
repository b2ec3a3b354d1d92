---------------------------- MODULE QuotedField -----------------------------
(***************************************************************************)
(* What a quoted-field matcher promises: asked once, it answers with the   *)
(* field the definitions of QuotedText give, with the error that explains  *)
(* why there is none, or leaves the source to the other matchers.          *)
(***************************************************************************)
EXTENDS QuotedText

CONSTANTS
  FieldStartOnly,  \* the matcher fires at the start of a field only
  Refusal          \* its answer to a control character it may not take:
                   \* "unprintable", or "none" to leave it to other matchers

VARIABLES src, before, opts, answer

vars == <<src, before, opts, answer>>

Follows(piece) ==
  \E i \in 1 .. Len(before) : SubSeq(before, i, Len(before)) = piece

AtFieldStart ==
  \/ before = <<>>
  \/ \E c \in LineChars \union SpaceChars : Follows(<<c>>)
  \/ \E fixed \in FixedTokens : Follows(fixed)

Fires ==
  /\ OneCodeUnit(opts.quote)
  /\ src[1] = opts.quote[1]
  /\ FieldStartOnly => AtFieldStart

Init ==
  /\ [src |-> src, before |-> before, opts |-> opts] \in Inputs
  /\ answer = Pending

Asked(a) == answer = Pending /\ answer' = a /\ UNCHANGED <<src, before, opts>>

Decline == ~Fires /\ Asked(Unread)

Refuse ==
  LET refused == Unprintables(src, opts.quote[1])
  IN /\ Fires /\ ~opts.allow /\ refused # {}
     /\ Asked(IF Refusal = "none" THEN Unread
                                  ELSE Answer("unprintable", <<>>, Min(refused) - 1))

Read ==
  LET q == opts.quote[1]
  IN /\ Fires
     /\ opts.allow \/ Unprintables(src, q) = {}
     /\ IF Closings(src, q) = {}
          THEN Asked(Answer("unterminated", <<>>, Len(src)))
          ELSE Asked(Answer("field", Said(src, q), Min(Closings(src, q))))

Next == Decline \/ Refuse \/ Read

Spec == Init /\ [][Next]_vars
=============================================================================
