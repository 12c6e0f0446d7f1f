--------------------------- MODULE ParticleSphere ---------------------------
(***************************************************************************)
(* The animation of the landing page (frontend/src/three/ParticleSphere.tsx)*)
(* runs a frame at a time, while the tab is visible and the canvas on        *)
(* screen.  Two event sources start and stop it, each of them also when     *)
(* nothing changed for it, and a frame asks for the next one by itself.     *)
(*                                                                         *)
(* Left out: what a frame draws, and the pointer, which only turns it.      *)
(***************************************************************************)
EXTENDS Naturals

VARIABLES
    sphere,         \* the closure of the effect: its flags and the frame it holds
    frames,         \* callbacks the browser has yet to run
    hidden          \* document.hidden

sphereVars == <<sphere, frames, hidden>>

Unmounted == [mounted |-> FALSE, tabVisible |-> FALSE, onScreen |-> FALSE, raf |-> FALSE]

SphereInit == sphere = Unmounted /\ frames = 0 /\ hidden = FALSE

running(s) == s.tabVisible /\ s.onScreen

\* What a handler leaves: its flags and the number of frames asked for.
Becomes(s, n) == sphere' = s /\ frames' = n

start_Unguarded(s, n) ==        \* mutant: raf === 0 is not looked at
    IF running(s) THEN Becomes([s EXCEPT !.raf = TRUE], n + 1) ELSE Becomes(s, n)

start(s, n) ==
    IF ~s.raf /\ running(s) THEN Becomes([s EXCEPT !.raf = TRUE], n + 1) ELSE Becomes(s, n)

stop(s, n) ==
    IF s.raf THEN Becomes([s EXCEPT !.raf = FALSE], n - 1) ELSE Becomes(s, n)
-----------------------------------------------------------------------------
Mount ==
    /\ ~sphere.mounted
    /\ start([mounted |-> TRUE, tabVisible |-> ~hidden, onScreen |-> TRUE, raf |-> FALSE], frames)
    /\ UNCHANGED hidden

(* A frame renders, then asks for the next one if it is still wanted.       *)
tick ==
    /\ frames > 0
    /\ IF running(sphere) THEN Becomes([sphere EXCEPT !.raf = TRUE], frames)
                          ELSE Becomes([sphere EXCEPT !.raf = FALSE], frames - 1)
    /\ UNCHANGED hidden

(* The observer reports once at the start, and then every crossing.         *)
Intersects ==
    /\ sphere.mounted
    /\ \E isIntersecting \in BOOLEAN :
         LET s == [sphere EXCEPT !.onScreen = isIntersecting] IN
         IF isIntersecting THEN start(s, frames) ELSE stop(s, frames)
    /\ UNCHANGED hidden

VisibilityChanges ==
    /\ hidden' = ~hidden
    /\ LET s == [sphere EXCEPT !.tabVisible = ~hidden'] IN
       IF ~sphere.mounted THEN UNCHANGED <<sphere, frames>>
       ELSE IF s.tabVisible THEN start(s, frames) ELSE stop(s, frames)

Unmount ==
    /\ sphere.mounted
    /\ frames' = IF sphere.raf THEN frames - 1 ELSE frames
    /\ sphere' = Unmounted
    /\ UNCHANGED hidden

SphereStep == Mount \/ tick \/ Intersects \/ VisibilityChanges \/ Unmount

\* The document is gone, and its callbacks with it; the next one is looked at.
LeaveLanding == sphere' = Unmounted /\ frames' = 0 /\ hidden' = FALSE
-----------------------------------------------------------------------------
(* However the events fall, a visible sphere turns, at one frame a time, and *)
(* one that is out of sight, or gone, costs none.                           *)
OneFrameWhenSeen ==
    frames = IF sphere.mounted /\ ~hidden /\ sphere.onScreen THEN 1 ELSE 0
=============================================================================
