------------------------------ MODULE Appearance ------------------------------
(***************************************************************************)
(* The theme of a page and what is stored of it: ThemePicker, its hooks    *)
(* (use-theme-picker.ts, use-custom-primary.ts) and the provider that      *)
(* writes CSS variables (provider.tsx), under the application's            *)
(* AppearanceProvider (InApp) or as the hooks' own examples compose them.  *)
(* An action is a handler, the render it causes and that render's effects. *)
(***************************************************************************)
CONSTANTS
  None,
  Tabs,
  InApp,     \* under AppearanceProvider, or as in the example of useThemePicker
  Base,      \* the example's initial theme, one of the library's
  Swatches, Edges,  \* ids of PRIMARY_SWATCHES and EDGE_STYLES
  Texts,     \* what is typed in the hex box; Hexes are valid colours
  Hexes,
  Stores     \* what earlier visits may have left

Modes == {"light", "dark"}
AppearanceAssumption ==
  /\ InApp \in BOOLEAN /\ Base \in {"warm", "cool", "institutional"}
  /\ "warm-orange" \in Swatches /\ (Base = "cool" => "cool-purple" \in Swatches) /\ "rounded" \in Edges
  /\ Base = "institutional" => "institutional" \in Swatches /\ "soft" \in Edges
  /\ {None, ""} \cap Hexes = {} /\ None \notin Tabs /\ None \notin Swatches \X Edges \X Modes
  /\ \A s \in Stores : DOMAIN s = {"prefs", "hex", "migrated", "brand"} /\ s.hex \in Hexes \cup {None}
                      /\ (s.prefs = None \/ s.prefs[3] \in Modes)

VARIABLES
  open, theme, hex, brand,  \* of each tab: the hooks' states
  draft,            \* the text of the dialog's hex box
  page,             \* its CSS variables
  store, works,     \* localStorage, and whether it may be used
  chosen,           \* of each tab of the example: the swatch picked since its colour was set otherwise
  alone,            \* the tab that was the only one ever since it was opened
  picked, reset     \* whether anybody picked, and whether a reset of that tab came last

vars == <<open, theme, hex, brand, draft, page, store, works, chosen, alone, picked, reset>>

-----------------------------------------------------------------------------
(* Themes: palette names the surfaces and their text; muted the theme whose *)
(* secondary text and borders are kept, None when they follow the text.     *)

Theme(primary, hover, palette, muted, radius, mode) ==
  [primary |-> primary, hover |-> hover, palette |-> palette, muted |-> muted, radius |-> radius, mode |-> mode]
Warm == Theme("warm-orange", "warm-orange", "warm", "warm", "other", "dark")
CoolDark == Theme("cool-purple", "cool-purple", "cool", "cool", "rounded", "dark")
Institutional == Theme("institutional", "institutional", "institutional", "institutional", "soft", "light")
SoftLight == Theme("warm-orange", "warm-orange", "softLight", "softLight", "rounded", "light")
SoftDark == Theme("warm-orange", "warm-orange", "softDark", "softDark", "rounded", "dark")

\* composeTheme
Compose(base, color, radius, mode) ==
  [base EXCEPT !.primary = color, !.radius = radius, !.mode = mode, !.palette = mode, !.muted = None]

\* withPrimary, withGoalTipSurfaces
Surfaces(th, override) ==
  LET base == IF th.mode = "dark" THEN SoftDark ELSE SoftLight
  IN [base EXCEPT !.primary = IF override = None THEN @ ELSE override,
                  !.hover = IF override \in {None, "warm-orange"} THEN @ ELSE override,
                  !.radius = th.radius]
Effective(th, h) == IF InApp THEN Surfaces(th, h) ELSE IF h = None THEN th ELSE Compose(th, h, th.radius, th.mode)

\* cssVariables: an absent hover colour has no variable.
CssVariables(th) ==
  [v \in DOMAIN th \ (IF th.hover = None THEN {"hover"} ELSE {}) |-> IF v = "muted" /\ th.muted = None THEN th.palette ELSE th[v]]
\* The provider's effect: the variables of the theme before are removed.
Inject(vs, old, new) ==
  [v \in DOMAIN CssVariables(new) \cup (DOMAIN vs \ DOMAIN CssVariables(old)) |->
     IF v \in DOMAIN CssVariables(new) THEN CssVariables(new)[v] ELSE vs[v]]

-----------------------------------------------------------------------------
(* Storage                                                                 *)

\* deriveIdsFromTheme, applyPrefsToTheme
\* Mutant: the mode is not kept.
DeriveLight(th) == IF th.primary \in Swatches /\ th.radius \in Edges THEN <<th.primary, th.radius, "light">> ELSE None
Derive(th) == IF th.primary \in Swatches /\ th.radius \in Edges THEN <<th.primary, th.radius, th.mode>> ELSE None
Apply(base, p) == IF p[1] \in Swatches /\ p[2] \in Edges THEN Compose(base, p[1], p[2], p[3]) ELSE base
Initial == IF InApp THEN SoftLight ELSE IF Base = "warm" THEN Warm ELSE IF Base = "cool" THEN CoolDark ELSE Institutional
Hydrated == IF works /\ store.prefs # None THEN Apply(Initial, store.prefs) ELSE Initial
HydratedHex == IF works THEN store.hex ELSE None
\* The persisting effect of useThemePicker.
SavedPrefs(th) == IF Derive(th) = None THEN store.prefs ELSE Derive(th)

Template == "goaltip"
Nothing == [v \in {} |-> None]

-----------------------------------------------------------------------------
Init == /\ open = [t \in Tabs |-> FALSE] /\ theme = [t \in Tabs |-> Initial] /\ hex = [t \in Tabs |-> None]
        /\ brand = [t \in Tabs |-> Template] /\ draft = [t \in Tabs |-> ""] /\ page = [t \in Tabs |-> Nothing]
        /\ store \in Stores /\ works \in BOOLEAN
        /\ chosen = [t \in Tabs |-> None] /\ alone = None /\ picked = FALSE /\ reset = FALSE

\* A tab is shown: the hooks read what is stored, the migration resets what an
\* older version left, and the brand is the application's whatever was stored.
MigratedTheme == IF ~InApp \/ (works /\ store.migrated) THEN Hydrated ELSE SoftLight
MigratedHex == IF ~InApp \/ (works /\ store.migrated) THEN HydratedHex ELSE None
BrandStored == IF works /\ store.brand # None THEN store.brand ELSE Template
BrandShown == IF BrandStored = Template THEN BrandStored ELSE Template
Open(t) == LET th == MigratedTheme
               h == MigratedHex IN
  /\ ~open[t] /\ open' = [open EXCEPT ![t] = TRUE]
  /\ theme' = [theme EXCEPT ![t] = th] /\ hex' = [hex EXCEPT ![t] = h] /\ draft' = [draft EXCEPT ![t] = IF h = None THEN "" ELSE h]
  /\ brand' = [brand EXCEPT ![t] = BrandShown]
  /\ page' = [page EXCEPT ![t] = CssVariables(Effective(th, h))]
  /\ store' = IF works THEN [prefs |-> SavedPrefs(th), hex |-> h, migrated |-> store.migrated \/ InApp, brand |-> BrandShown] ELSE store
  /\ chosen' = [chosen EXCEPT ![t] = None] /\ alone' = (IF \E u \in Tabs : open[u] THEN None ELSE t)
  /\ UNCHANGED <<works, picked, reset>>
\* The states of its hooks go with a tab; only what is stored is left.
Close(t) == /\ open[t] /\ open' = [open EXCEPT ![t] = FALSE] /\ page' = [page EXCEPT ![t] = Nothing] /\ alone' = None
            /\ theme' = [theme EXCEPT ![t] = Initial] /\ hex' = [hex EXCEPT ![t] = None] /\ brand' = [brand EXCEPT ![t] = Template]
            /\ draft' = [draft EXCEPT ![t] = ""] /\ chosen' = [chosen EXCEPT ![t] = None] /\ UNCHANGED <<store, works, picked, reset>>

\* A render with another theme or colour, and its effects.
Shown(t) == Effective(theme[t], hex[t])
Show(t, th, h) == /\ open[t] /\ theme' = [theme EXCEPT ![t] = th] /\ hex' = [hex EXCEPT ![t] = h]
                  /\ page' = [page EXCEPT ![t] = Inject(@, Shown(t), Effective(th, h))]
                  /\ UNCHANGED <<open, brand, works, alone>>
\* setTheme of the provider, or of the hook itself.
SetTheme(t, th) == LET next == IF InApp THEN Surfaces(th, None) ELSE th
  IN Show(t, next, hex[t]) /\ store' = (IF works THEN [store EXCEPT !.prefs = SavedPrefs(next)] ELSE store)
     /\ picked' = TRUE /\ reset' = FALSE /\ UNCHANGED draft

\* The picker's value: the theme in effect, or the hook's own in the example.
Value(t) == IF InApp THEN Shown(t) ELSE theme[t]
PickSwatch(t, c) == /\ SetTheme(t, Compose(Value(t), c, Value(t).radius, Value(t).mode))
                    /\ chosen' = (IF InApp THEN chosen ELSE [chosen EXCEPT ![t] = c])
PickEdge(t, e) == SetTheme(t, Compose(Value(t), Value(t).primary, e, Value(t).mode)) /\ UNCHANGED chosen
PickMode(t, m) == SetTheme(t, Compose(Value(t), Value(t).primary, Value(t).radius, m)) /\ UNCHANGED chosen
\* The consumer of the example sets a theme of its own.
UseTheme(t, b) == ~InApp /\ SetTheme(t, b) /\ chosen' = [chosen EXCEPT ![t] = None]

\* setCustomPrimary: an effect stores it, another puts it into the hex box.
SetHex(t, h, text) == /\ Show(t, theme[t], h) /\ store' = IF works /\ h # hex[t] THEN [store EXCEPT !.hex = h] ELSE store
                      /\ draft' = [draft EXCEPT ![t] = IF h # hex[t] THEN (IF h = None THEN "" ELSE h) ELSE text]
\* commitHex: what is no colour is only shown in the box.
Committed(t, x) == IF x = "" THEN None ELSE IF x \in Hexes THEN x ELSE hex[t]
TypeHex(t, x) == /\ draft[t] # x /\ SetHex(t, Committed(t, x), x)
                 /\ chosen' = [chosen EXCEPT ![t] = IF hex'[t] # hex[t] THEN None ELSE @] /\ reset' = FALSE
                 /\ UNCHANGED picked
ResetHex(t) == /\ hex[t] # None /\ SetHex(t, None, draft[t])
               /\ chosen' = [chosen EXCEPT ![t] = None] /\ reset' = FALSE /\ UNCHANGED picked

\* resetSoftLight: the custom colour is written only when it changes here.  A
\* removed preference and that of Soft Light are read alike, so the model keeps
\* the second.
ResetSoftLight(t) ==
  /\ InApp /\ Show(t, SoftLight, None) /\ draft' = [draft EXCEPT ![t] = ""]
  /\ store' = IF works THEN [prefs |-> Derive(SoftLight), hex |-> IF hex[t] # None THEN None ELSE store.hex,
                             migrated |-> TRUE, brand |-> Template]
              ELSE store
  /\ chosen' = [chosen EXCEPT ![t] = None] /\ reset' = (t = alone) /\ UNCHANGED picked

Next == \E t \in Tabs :
  \/ Open(t) \/ Close(t) \/ ResetHex(t) \/ ResetSoftLight(t)
  \/ \E c \in Swatches : PickSwatch(t, c)
  \/ \E e \in Edges : PickEdge(t, e)
  \/ \E m \in Modes : PickMode(t, m)
  \/ \E b \in {Initial, [Initial EXCEPT !.hover = None]} : UseTheme(t, b)
  \/ \E x \in Texts : TypeHex(t, x)
Spec == Init /\ [][Next]_vars

-----------------------------------------------------------------------------
TypeOK == /\ open \in [Tabs -> BOOLEAN] /\ hex \in [Tabs -> Hexes \cup {None}] /\ works \in BOOLEAN
          /\ \A t \in Tabs : theme[t].mode \in Modes /\ theme[t].radius \in Edges \cup {Initial.radius}
          /\ store.hex \in Hexes \cup {None} /\ chosen \in [Tabs -> Swatches \cup {None}]
          /\ alone \in Tabs \cup {None}

\* The page carries the variables of the theme in effect and no other: nothing
\* of a theme before shows through.
PageIsTheme == \A t \in Tabs : page[t] = IF open[t] THEN CssVariables(Shown(t)) ELSE Nothing

\* Secondary text and borders are of the surfaces they stand on ("keeping them
\* after a dark switch makes subtitles + inactive tabs invisible").
MutedIsReadable == \A t \in Tabs : open[t] => page[t].muted = page[t].palette

\* Of a tab that was the only one, another visit shows the colour, the edges
\* and the mode, once the edges are a style of the picker: a theme with others
\* is not stored.
PicksSurvive == (alone # None /\ works /\ theme[alone].radius \in Edges) =>
  LET again == Effective(Hydrated, HydratedHex)
  IN again.primary = Shown(alone).primary /\ again.radius = Shown(alone).radius /\ again.mode = Shown(alone).mode
\* In the application, all of it.
VisitIsSame == (alone # None /\ works) => Effective(Hydrated, HydratedHex) = Shown(alone)

\* As long as nobody picked anything, a visit shows the base theme ("base-theme
\* references stay live on rehydration").
BaseStaysLive == \A t \in Tabs : (open[t] /\ ~picked /\ hex[t] = None) => Shown(t) = Initial

\* Without a custom colour, the swatch that was picked is the primary colour.
SwatchIsShown == \A t \in Tabs : (open[t] /\ chosen[t] # None /\ hex[t] = None) => Shown(t).primary = chosen[t]

\* The hex box shows the custom colour, or a text that is none.
DraftAgrees == \A t \in Tabs : open[t] => IF draft[t] \in Hexes THEN hex[t] = draft[t] ELSE draft[t] = "" => hex[t] = None

\* The brand shown and stored is the application's, whatever was stored before
\* ("Brand mark stays GoalTip"), and nothing of a store that an older version
\* left is in effect.
OldVisitsAreForgotten == InApp => \A t \in Tabs : open[t] =>
  /\ brand[t] = Template /\ (works => store.brand = Template /\ store.migrated)
  /\ ~picked => Shown(t).palette \in {"softLight", "softDark"}

\* A reset that came last, in a tab that was the only one, is what the next
\* visit shows ("Reset Soft Light").
ResetStands == (reset /\ works) => Effective(Hydrated, HydratedHex) = SoftLight
=============================================================================
