----------------------------- MODULE LandingHero -----------------------------
(***************************************************************************)
(* The top of the landing page: an animation that follows the scroll       *)
(* (components/landing/frame-sequence.tsx) under slides of text that fade    *)
(* in and out with it (HeroSection in app/(landing)/landing/page.tsx).      *)
(*                                                                         *)
(* drawFrame is made anew when loaded changes, and the effect that preloads *)
(* the images depends on drawFrame: when the last image has come, all are   *)
(* asked for once more and take the place of those that are there.          *)
(***************************************************************************)
EXTENDS Integers, FiniteSets, Sequences

CONSTANTS
    FrameCount,
    Stops,      \* where the visitor scrolls to, in twentieths of the section
    MaxJobs     \* bound: draws that wait for the next frame when the visitor scrolls

HeroAssumption ==
    /\ FrameCount \in Nat \ {0} /\ MaxJobs \in Nat \ {0}
    /\ Stops \subseteq 0..20

VARIABLES
    scroll,         \* scrollYProgress
    activeSlide,
    loaded,         \* "no"; "set", which React has yet to commit; "yes"
    imagesRef,      \* the frames of the present images that are complete
    due,            \* those whose load event is still to come
    raf,            \* the draws that wait, each with the loaded its drawFrame knows
    currentFrame,
    canvas,         \* what is drawn: the frame, and the window's size when it was
    undrawn,        \* history: the frame noted last was not complete when it was to be drawn
    rewound         \* history: since the visitor scrolled, loading went back to the first frame
hero == <<imagesRef, due, loaded>>
vars == <<scroll, activeSlide, hero, raf, currentFrame, canvas, undrawn, rewound>>

Frame == 0..(FrameCount - 1)
Size == {"narrow", "wide"}

\* A mutant: the index is cut off and not rounded.
FrameFloor(progress) == (progress * (FrameCount - 1)) \div 20

\* useTransform from [0, 1] to [0, frameCount - 1], rounded by drawFrame.
FrameAt(progress) == (2 * progress * (FrameCount - 1) + 20) \div 40

SlideAt(progress) ==
    IF progress < 4 THEN 0 ELSE IF progress < 9 THEN 1 ELSE IF progress < 14 THEN 2 ELSE 3

\* The point a share of the way from 0 to 100 between from and to.
Between(progress, from, to) ==
    IF progress <= from THEN 0
    ELSE IF progress >= to THEN 100 ELSE (100 * (progress - from)) \div (to - from)

\* slide0Opacity and the others, in hundredths.
SlideOpacity(slide, progress) ==
    CASE slide = 0 -> 100 - (Between(progress, 3, 4) + Between(progress, 4, 5)) \div 2
      [] slide = 1 -> Between(progress, 3, 5) - Between(progress, 8, 10)
      [] slide = 2 -> Between(progress, 8, 10) - Between(progress, 13, 15)
      [] slide = 3 -> Between(progress, 13, 15)

Init ==
    /\ scroll = 0 /\ activeSlide = 0
    /\ loaded = "no" /\ imagesRef = {} /\ due = Frame
    /\ raf = <<>> /\ currentFrame = 0
    /\ undrawn = TRUE /\ rewound = FALSE
    /\ \E size \in Size : canvas = [frame |-> -1, drawnAt |-> size, window |-> size]

\* drawFrame of the render that knew loaded to be knows.  It notes the frame even when
\* its image is not complete, and draws nothing then.
DrawFrame(frame, knows, images) ==
    IF frame = currentFrame /\ knows
    THEN UNCHANGED <<currentFrame, canvas, undrawn>>
    ELSE /\ currentFrame' = frame
         /\ undrawn' = (frame \notin images)
         /\ canvas' = IF frame \in images
                      THEN [canvas EXCEPT !.frame = frame, !.drawnAt = canvas.window]
                      ELSE canvas

Job(frame) == [frame |-> frame, knows |-> loaded = "yes"]

\* An image's onload.
ImageLoads(frame) ==
    /\ frame \in due
    /\ due' = due \ {frame} /\ imagesRef' = imagesRef \cup {frame}
    /\ loaded' = IF due' = {} /\ loaded = "no" THEN "set" ELSE loaded
    /\ raf' = IF frame = 0 THEN Append(raf, Job(0)) ELSE raf
    /\ rewound' = (rewound \/ (frame = 0 /\ FrameAt(scroll) # 0))
    /\ UNCHANGED <<scroll, activeSlide, currentFrame, canvas, undrawn>>

\* React commits loaded: the effects preload everything again and then draw the first frame.
Commit ==
    /\ loaded = "set" /\ loaded' = "yes"
    /\ due' = Frame
    /\ imagesRef' \in SUBSET Frame
    /\ DrawFrame(0, TRUE, imagesRef')
    /\ rewound' = (rewound \/ (raf = <<>> /\ FrameAt(scroll) # 0))
    /\ UNCHANGED <<scroll, activeSlide, raf>>

\* The next animation frame.
Draw ==
    /\ raf # <<>>
    /\ DrawFrame(Head(raf).frame, Head(raf).knows, imagesRef)
    /\ raf' = Tail(raf)
    /\ UNCHANGED <<scroll, activeSlide, hero, rewound>>

\* frameIndex changes with every step, though its frame may be the same.
Scroll(progress) ==
    /\ progress # scroll
    /\ Len(raf) < MaxJobs
    /\ scroll' = progress
    /\ activeSlide' = SlideAt(progress)
    /\ raf' = Append(raf, Job(FrameAt(progress)))
    /\ rewound' = FALSE
    /\ UNCHANGED <<hero, currentFrame, canvas, undrawn>>

\* handleResize.
Resize(size) ==
    /\ size # canvas.window
    /\ IF loaded # "yes" /\ currentFrame \in imagesRef
       THEN /\ canvas' = [frame |-> currentFrame, drawnAt |-> size, window |-> size]
            /\ undrawn' = FALSE
       ELSE canvas' = [canvas EXCEPT !.window = size] /\ UNCHANGED undrawn
    /\ UNCHANGED <<scroll, activeSlide, hero, raf, currentFrame, rewound>>

Next ==
    \/ \E frame \in Frame : ImageLoads(frame)
    \/ \E progress \in Stops : Scroll(progress)
    \/ \E size \in Size : Resize(size)
    \/ Commit \/ Draw

Spec == Init /\ [][Next]_vars

\* Every image is served, and the browser goes on.
FairSpec ==
    /\ Spec
    /\ \A frame \in Frame : WF_vars(ImageLoads(frame))
    /\ WF_vars(Commit) /\ WF_vars(Draw)

-----------------------------------------------------------------------------
\* The animation follows the scroll: when no draw waits, the canvas shows a frame nearest
\* to where the visitor is, however images, scrolls, draws and resizes interleave.  Two
\* things can leave it behind, and nothing else: the noted frame was not complete when its
\* draw came, as while the second loading replaces the images, or loading went back to the
\* first frame after the visitor had scrolled.
FollowsScroll ==
    raf = <<>> /\ ~undrawn /\ ~rewound =>
        \A frame \in Frame :
            LET Off(f) == IF 20 * f > scroll * (FrameCount - 1)
                          THEN 20 * f - scroll * (FrameCount - 1)
                          ELSE scroll * (FrameCount - 1) - 20 * f
            IN canvas.frame \in Frame /\ Off(canvas.frame) <= Off(frame)

\* The slide that counts as active is the one that can be read: none is more opaque, and
\* it is at least half so.  The thresholds and the four opacities are tables of their own;
\* the page sets activeSlide and, so far, reads it nowhere.
ActiveIsReadable ==
    /\ SlideOpacity(activeSlide, scroll) >= 50
    /\ \A slide \in 0..3 : SlideOpacity(slide, scroll) <= SlideOpacity(activeSlide, scroll)

\* FollowsScroll and ActiveIsReadable, inductive: what was noted and could be drawn is drawn,
\* and the last draw that was asked for is of the scroll's frame.
JobType == [frame : Frame, knows : BOOLEAN]

TypeOK ==
    /\ scroll \in 0..20
    /\ loaded \in {"no", "set", "yes"}
    /\ imagesRef \subseteq Frame /\ due \subseteq Frame
    /\ raf \in Seq(JobType)
    /\ currentFrame \in Frame
    /\ canvas \in [frame : Frame \cup {-1}, drawnAt : Size, window : Size]
    /\ undrawn \in BOOLEAN /\ rewound \in BOOLEAN

LastIsDrawn ==
    /\ ~undrawn => canvas.frame = currentFrame
    /\ ~rewound => IF raf = <<>> THEN currentFrame = FrameAt(scroll)
                   ELSE raf[Len(raf)].frame = FrameAt(scroll)

IInv == TypeOK /\ activeSlide = SlideAt(scroll) /\ LastIsDrawn

\* The spinner that covers the canvas goes, whatever the order in which the images come;
\* there is no onerror, so a single one that fails keeps it there.
SpinnerEnds == <>(loaded = "yes")
=============================================================================
