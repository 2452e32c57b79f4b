---------------------------- MODULE PersonaAgent ----------------------------
(***************************************************************************)
(* HoloPersonaAgent.decide: the screenshot is sent, at most MaxW wide, the *)
(* model answers on a grid of 1000 by 1000 laid over what it was sent, and *)
(* the answer comes back as a pixel of the viewport.  The perturbations of *)
(* what the persona sees keep the size of the image and are left out.      *)
(***************************************************************************)
EXTENDS Integers, FiniteSetsExt, Rounding

CONSTANT MaxW        \* HAI_IMG_MAX_W

ASSUME MaxWAssumption == MaxW \in Int

NoPoint == <<>>

(* A reply names a point, or an action that needs one without naming it, or  *)
(* cannot be read at all, or asks for an action that needs no point.         *)
Replies == {"point", "partial", "unreadable", "still"}

Within(n, length) == IF n < 0 THEN 0 ELSE IF n < length THEN n ELSE length - 1

Clamped(at, size) == << Within(at[1], size.w), Within(at[2], size.h) >>

Centre(size) == << size.w \div 2, size.h \div 2 >>

\* The image sent for a viewport; relative is coords_relative_to_sent_image.
Sent(relative, view) ==
    IF ~relative \/ MaxW <= 0 \/ view.w <= MaxW THEN view
    ELSE [w |-> MaxW, h |-> Max({1, RoundHalfEven(view.h * MaxW, view.w)})]

Denormalize(at, size) ==
    Clamped(<< RoundHalfEven(at[1] * size.w, 1000), RoundHalfEven(at[2] * size.h, 1000) >>, size)

\* parse_action(text, w, h, normalize=True): every form it knows, by outcome.
ParseAction(reply, size) ==
    CASE reply.kind = "point" -> Denormalize(reply.at, size)
      [] reply.kind \in {"partial", "unreadable"} -> Centre(size)
      [] reply.kind = "still" -> NoPoint

\* FakeHoloClient and EchoModelClient: the script's pixels, as they are.
ParseScript(reply, size) ==
    CASE reply.kind = "point" -> reply.at
      [] reply.kind \in {"partial", "unreadable"} -> Centre(size)
      [] reply.kind = "still" -> NoPoint

\* Mutant of ScaleBack: pixels of the sent image taken for pixels of the viewport.
NotScaledBack(at, sent, view) == at

ScaleBack(at, sent, view) ==
    IF sent.w = view.w THEN at
    ELSE << RoundHalfEven(at[1] * view.w, sent.w), RoundHalfEven(at[2] * view.w, sent.w) >>

\* actuate and jitter_coords, with the noise that was drawn.
Jitter(at, noise, view) == Clamped(<< at[1] + noise[1], at[2] + noise[2] >>, view)

Decide(relative, sent, view, reply, noise) ==
    LET raw == IF relative THEN ParseAction(reply, sent) ELSE ParseScript(reply, sent)
    IN  IF raw = NoPoint THEN NoPoint ELSE Jitter(ScaleBack(raw, sent, view), noise, view)

------------------------------------------------------------------------------
(* What a model that looks at the target, and answers as asked, replies.     *)

Ideal(relative, view, target) ==
    IF relative THEN << RoundHalfEven(1000 * target[1], view.w), RoundHalfEven(1000 * target[2], view.h) >>
    ELSE target

Magnitude(n) == IF n < 0 THEN -n ELSE n

Inside(at, view) == at[1] \in 0 .. view.w - 1 /\ at[2] \in 0 .. view.h - 1

\* Half a step of the grid, a pixel of the sent image and half a pixel more.
NearEnough(a, b, noise, length, sent, view) ==
    2000 * (Magnitude(a - b) - Magnitude(noise))
        <= length + (2000 * view.w) \div sent.w + 1000

Near(at, target, noise, sent, view) ==
    /\ NearEnough(at[1], target[1], noise[1], view.w, sent, view)
    /\ NearEnough(at[2], target[2], noise[2], view.h, sent, view)
=============================================================================
