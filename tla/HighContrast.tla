---------------------------- MODULE HighContrast ----------------------------
(***************************************************************************)
(* The employee's theme for direct sunlight (hooks/use-high-contrast.ts):   *)
(* a class of the document, a preference all tabs share, and the state of    *)
(* the header's button (operario-header.tsx), which is there while one of    *)
(* the employee's pages is.                                                 *)
(***************************************************************************)
CONSTANT Tab

VARIABLES
    preference,     \* nereo-high-contrast in localStorage
    class,          \* theme-high-contrast is set on each tab's document
    mounted,        \* the header is there
    enabled,        \* what its button shows
    again           \* history: it has been left since the document was loaded

vars == <<preference, class, mounted, enabled, again>>

Init ==
    /\ preference \in BOOLEAN
    /\ class = [t \in Tab |-> FALSE]
    /\ mounted = [t \in Tab |-> FALSE]
    /\ enabled = [t \in Tab |-> FALSE]
    /\ again = [t \in Tab |-> FALSE]

\* A mutant: the class is not set for a preference that was kept.
MountShows(t) ==
    /\ ~mounted[t]
    /\ mounted' = [mounted EXCEPT ![t] = TRUE]
    /\ enabled' = [enabled EXCEPT ![t] = preference]
    /\ UNCHANGED <<preference, class, again>>

\* The effect on mounting: a preference adds the class, and its absence does nothing.
Mount(t) ==
    /\ ~mounted[t]
    /\ mounted' = [mounted EXCEPT ![t] = TRUE]
    /\ enabled' = [enabled EXCEPT ![t] = preference]
    /\ class' = [class EXCEPT ![t] = @ \/ preference]
    /\ UNCHANGED <<preference, again>>

\* Back to a page of another layout, within the document; there is no cleanup.
Unmount(t) ==
    /\ mounted[t]
    /\ mounted' = [mounted EXCEPT ![t] = FALSE]
    /\ again' = [again EXCEPT ![t] = TRUE]
    /\ UNCHANGED <<preference, class, enabled>>

\* Another document, so nothing is left of the class.
Reload(t) ==
    /\ mounted' = [mounted EXCEPT ![t] = FALSE]
    /\ class' = [class EXCEPT ![t] = FALSE]
    /\ again' = [again EXCEPT ![t] = FALSE]
    /\ UNCHANGED <<preference, enabled>>

Toggle(t) ==
    /\ mounted[t]
    /\ enabled' = [enabled EXCEPT ![t] = ~enabled[t]]
    /\ class' = [class EXCEPT ![t] = ~enabled[t]]
    /\ preference' = ~enabled[t]
    /\ UNCHANGED <<mounted, again>>

Next == \E t \in Tab : Mount(t) \/ Unmount(t) \/ Reload(t) \/ Toggle(t)

Spec == Init /\ [][Next]_vars

-----------------------------------------------------------------------------
\* The button says what the document looks like, whatever other tabs did to the preference
\* before and after it was read: it and the class are written together and apart from it.
\* A header that comes back into a document finds the class as it was left.
ButtonSaysTheme == \A t \in Tab : mounted[t] /\ ~again[t] => (enabled[t] <=> class[t])

\* ButtonSaysTheme, inductive: what it rests on is that the class a header will find in a
\* document it has not been in is absent.
IInv ==
    /\ preference \in BOOLEAN
    /\ class \in [Tab -> BOOLEAN] /\ mounted \in [Tab -> BOOLEAN]
    /\ enabled \in [Tab -> BOOLEAN] /\ again \in [Tab -> BOOLEAN]
    /\ \A t \in Tab : ~mounted[t] /\ ~again[t] => ~class[t]
    /\ ButtonSaysTheme
=============================================================================
