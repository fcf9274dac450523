------------------------------- MODULE Branding -------------------------------
(***************************************************************************)
(* The brand and the colours that a user of the component library may set  *)
(* (brand-picker.tsx, use-brand-picker.ts, use-custom-colors.ts), as their *)
(* examples compose them: a picked image is read while the form stays      *)
(* usable, and every state is stored whole.                                *)
(***************************************************************************)
EXTENDS Naturals

CONSTANTS
  None,
  Names,      \* of the brand, and what is typed as an alternative text
  Images,     \* files: each is named as an alternative text, or fails to be read
  TooBig,     \* those that exceed the quota of localStorage
  MaxReads,   \* files picked in a visit
  Keys, Hexes, Texts   \* of the custom colours

VARIABLES
  shown,    \* whether the form is mounted
  brand, colours,
  reads,    \* images being read: into which field, and the brand when it was picked
  picks,
  saved, savedColours  \* localStorage

vars == <<shown, brand, colours, reads, picks, saved, savedColours>>
colouring == <<colours, savedColours>>

Fields == {"wordmark", "mark"}
BrandConfigs == [name: Names \cup {"WDK"}, src: [Fields -> Images \cup {"default", None}],
                 alt: [Fields -> Names \cup Images \cup {"WDK", None}]]
BrandingAssumption ==
  TooBig \subseteq Images /\ MaxReads \in Nat /\ None \notin BrandConfigs /\ None \notin Hexes
Default == [name |-> "WDK", src |-> [f \in Fields |-> "default"], alt |-> [f \in Fields |-> "WDK"]]
Bare == [name |-> "WDK", src |-> [f \in Fields |-> None], alt |-> [f \in Fields |-> None]]
NoColours == [k \in {} |-> None]
TheStored == IF saved = None THEN Default ELSE saved

\* isBrandConfig: a stored brand needs a name only.
Init == /\ saved \in {None, Default, Bare} /\ shown = FALSE /\ brand = TheStored /\ reads = {} /\ picks = 0
        /\ colours = NoColours /\ savedColours = NoColours

-----------------------------------------------------------------------------
(* The hooks                                                               *)

\* saveStored, in the effect of every change: errors of the quota are ignored.
Fits(b) == \A f \in Fields : b.src[f] \notin TooBig
SaveBrand(b) == saved' = IF Fits(b) THEN b ELSE saved
SetBrand(b) == shown /\ brand' = b /\ SaveBrand(b) /\ UNCHANGED <<shown>> /\ UNCHANGED colouring

\* The form is left, with the answers to come, and mounted again.
Leave == /\ shown /\ shown' = FALSE /\ reads' = {} /\ picks' = 0 /\ UNCHANGED <<brand, saved>> /\ UNCHANGED colouring
Mount == /\ ~shown /\ shown' = TRUE /\ brand' = TheStored /\ SaveBrand(TheStored)
         /\ colours' = savedColours /\ UNCHANGED <<reads, picks, savedColours>>

Without(c, k) == [j \in DOMAIN c \ {k} |-> c[j]]
\* setColor: what is no colour is refused.
ColourOf(c, k, h) == IF h = None THEN Without(c, k) ELSE IF h \in Hexes THEN [j \in DOMAIN c \cup {k} |-> IF j = k THEN h ELSE c[j]] ELSE c
SetColour(k, h) == /\ shown /\ colours' = ColourOf(colours, k, h) /\ savedColours' = colours'
                   /\ UNCHANGED <<shown, brand, reads, picks, saved>>
ClearAll == /\ shown /\ colours # NoColours /\ colours' = NoColours /\ savedColours' = NoColours
            /\ UNCHANGED <<shown, brand, reads, picks, saved>>

-----------------------------------------------------------------------------
(* The picker                                                              *)

TypeName(n) == n # brand.name /\ SetBrand([brand EXCEPT !.name = n]) /\ UNCHANGED <<reads, picks>>
TypeAlt(f, n) == n # brand.alt[f] /\ SetBrand([brand EXCEPT !.alt[f] = n]) /\ UNCHANGED <<reads, picks>>
Clear(f) == brand.src[f] # None /\ SetBrand([brand EXCEPT !.src[f] = None]) /\ UNCHANGED <<reads, picks>>
Reset == SetBrand(Default) /\ UNCHANGED <<reads, picks>>

\* handleWordmarkFile, handleMarkFile up to the await: the handler holds the
\* brand of its render.
PickFile(f, i) == /\ shown /\ picks < MaxReads /\ picks' = picks + 1
                  /\ reads' = reads \cup {[field |-> f, image |-> i, value |-> brand, id |-> picks]}
                  /\ UNCHANGED <<shown, brand, saved>> /\ UNCHANGED colouring
\* And after it.  An alternative text stands, when there is one.
With(r) == [r.value EXCEPT !.src[r.field] = r.image,
                           !.alt[r.field] = IF @ = None THEN r.image ELSE @]
ReadDone(r) == SetBrand(With(r)) /\ reads' = reads \ {r} /\ UNCHANGED picks
ReadFails(r) == reads' = reads \ {r} /\ UNCHANGED <<shown, brand, picks, saved>> /\ UNCHANGED colouring

Next == \/ Leave \/ Mount \/ ClearAll \/ Reset
        \/ \E k \in Keys, h \in Hexes \cup Texts \cup {None} : SetColour(k, h)
        \/ \E n \in Names : TypeName(n)
        \/ \E f \in Fields : Clear(f) \/ (\E n \in Names : TypeAlt(f, n)) \/ (\E i \in Images : PickFile(f, i))
        \/ \E r \in reads : ReadDone(r) \/ ReadFails(r)
Spec == Init /\ [][Next]_vars

-----------------------------------------------------------------------------
TypeOK == /\ brand \in BrandConfigs /\ saved \in BrandConfigs \cup {None} /\ picks \in 0..MaxReads
          /\ \A r \in reads : r.value \in BrandConfigs /\ r.id < picks /\ \A q \in reads : q.id = r.id => q = r
          /\ (~shown => reads = {}) /\ colours \in [DOMAIN colours -> Hexes] /\ DOMAIN colours \subseteq Keys

\* Another visit shows the colours of this one, and its brand unless an image
\* of it exceeds the quota ("the entire brand survives a popup reopen").
BrandSurvives == shown => (Fits(brand) => TheStored = brand) /\ savedColours = colours
=============================================================================
