--------------------------------- MODULE Menu ---------------------------------
(***************************************************************************)
(* maidsafe::Menu and MenuItem (menu.h, menu.cc, menu_item.cc): a tree of  *)
(* named items, built by the caller, then walked from the console.         *)
(***************************************************************************)
EXTENDS Integers, Sequences, FiniteSets

CONSTANTS
  ItemNames,              \* what the caller may call an item
  Throwing,               \* names of items whose operation throws
  MaxItems, MaxChoices    \* bounds

Top == 1
NoItem == 0

\* items: [name, parent, children] in the order they were made, the first the top level;
\* current: current_item_; shown: the one whose options are on the screen; ran: the item
\* whose operation ran last, entered: the number entered for it; stage: the caller's or
\* Run's; result: of Run.
VARIABLE menu

MenuInit ==
  menu = [items |-> <<[name |-> "main", parent |-> NoItem, children |-> <<>>]>>, current |-> Top,
          shown |-> NoItem, ran |-> NoItem, entered |-> 0, stage |-> "building", result |-> "none",
          choices |-> 0]

Children(i) == menu.items[i].children

WithChild(items, parent, name) ==
  Append([items EXCEPT ![parent].children = Append(@, Len(items) + 1)],
         [name |-> name, parent |-> parent, children |-> <<>>])

\* A second child of the same name, or one without a name, is refused: the caller catches it.
AddChildItem(parent, name) ==
  /\ menu.stage = "building" /\ Len(menu.items) < MaxItems
  /\ name # "" /\ \A i \in 1..Len(Children(parent)) : menu.items[Children(parent)[i]].name # name
  /\ menu' = [menu EXCEPT !.items = WithChild(@, parent, name)]

\* Faulty: an item without children is shown as it is.
Itself(i) == i
\* What Run shows next: an item without children gives way to its parent.
Shown(i) == IF Children(i) = <<>> THEN menu.items[i].parent ELSE i

\* With nothing in the menu the parent of the top level is dereferenced.
Show ==
  /\ menu.stage \in {"building", "showing"}
  /\ LET item == Shown(menu.current)
     IN menu' = IF item = NoItem THEN [menu EXCEPT !.stage = "crashed"]
                ELSE [menu EXCEPT !.current = item, !.shown = item, !.stage = "asking"]

\* 0 quits, 99 goes back if there is a parent, a number is the child of this number, anything
\* else is asked for again; going back runs the parent's operation too.
Target(option) ==
  IF option = 99 /\ menu.items[menu.current].parent # NoItem THEN menu.items[menu.current].parent
  ELSE IF option \in 1..Len(Children(menu.current)) THEN Children(menu.current)[option] ELSE NoItem
Choose(option) ==
  /\ menu.stage = "asking" /\ menu.choices < MaxChoices
  /\ LET target == Target(option)
         chosen == [menu EXCEPT !.choices = @ + 1]
     IN menu' = CASE option = 0 -> [chosen EXCEPT !.stage = "ended", !.result = "0"]
                  [] option # 0 /\ target = NoItem -> chosen
                  [] option # 0 /\ target # NoItem /\ menu.items[target].name \in Throwing ->
                       [chosen EXCEPT !.current = target, !.ran = target, !.entered = option,
                                      !.stage = "ended", !.result = "error"]
                  [] option # 0 /\ target # NoItem /\ menu.items[target].name \notin Throwing ->
                       [chosen EXCEPT !.current = target, !.ran = target, !.entered = option,
                                      !.stage = "showing"]

MenuNext ==
  \/ \E parent \in 1..Len(menu.items), name \in ItemNames : AddChildItem(parent, name)
  \/ Show
  \/ \E option \in 0..MaxItems \cup {99} : Choose(option)

MenuSpec == MenuInit /\ [][MenuNext]_menu

-----------------------------------------------------------------------------
\* What runs is the item that the number entered was shown with: the child of the item on the
\* screen at that place in its list, or for 99, where it has one, its parent; and the item
\* shown always has an option to choose (Run, ShowOptions, Child).
WhatIsShownIsChosen ==
  LET above == menu.items[menu.shown].parent
  IN /\ menu.stage = "asking" => menu.shown = menu.current /\ Children(menu.shown) # <<>>
     /\ (menu.stage = "showing" \/ menu.result = "error") =>
          IF menu.entered = 99 /\ above # NoItem THEN menu.ran = above
          ELSE /\ menu.entered \in 1..Len(Children(menu.shown))
               /\ menu.ran = Children(menu.shown)[menu.entered]
=============================================================================
