------------------------------- MODULE Brewing -------------------------------
(***************************************************************************)
(* The way of a command of DeLonghiApi up to send_command: the button or   *)
(* service, the choice of the recipe in what the cloud answers, the check  *)
(* before the brew, the frame, the ping; then SendCommand posts it.        *)
(*                                                                         *)
(* A command in preparation shares nothing with the threads that post, so  *)
(* SendCommand starts when every command is ready for it or given up: the  *)
(* orders left out are equal to ones kept.                                 *)
(***************************************************************************)
EXTENDS SendCommand, Recipes

CONSTANTS
  Brews,           \* the commands whose preparation is followed
  Profiles,        \* the profiles that can be selected
  Numbers,         \* the quantities the service is called with, and their negatives
  MaxProperties,   \* bound on the recipe properties of a machine
  MaxParams        \* bound on the params of a recipe

ASSUME BrewAssumption ==
  /\ Brews \subseteq Call
  /\ Profiles \subseteq 1..5
  /\ Numbers \subseteq Nat
  /\ {MaxProperties, MaxParams} \subseteq Nat

VARIABLE order   \* what each command in preparation has come to

brewVars == <<sendVars, order>>

\* A thread that has nothing to prepare is ready from the start.
BrewInit ==
  /\ SendInit
  /\ order = [c \in Call |-> [stage |-> IF c \in Brews THEN "asked" ELSE "sent"]]

Asked(c) == order[c].stage = "asked"
Goes(c, to) == order' = [order EXCEPT ![c] = to] /\ UNCHANGED sendVars

\* HomeAssistantError, or an exception that no handler caught.
Raised == [stage |-> "raised"]

-----------------------------------------------------------------------------
(* brew_beverage.                                                          *)

Keys == {<<"espresso">>, <<"espresso", "lungo">>, <<"over", "ice", "espr">>, <<"a", "cb", "coffee">>}

Names(styles, keys, profiles) ==
  [style : styles, profile : profiles, key : keys, value : {"recipe", "other"}]

\* A machine names its recipes in one way; the names of the properties differ.
Eletta == Names({"last"}, Keys, Profiles)
PrimaDonna == Names({"first"}, Keys, Profiles) \cup Names({"none"}, Keys, {0})
CustomSlots == Names({"none"}, {<<"custom", "1">>}, {0})

SameName(p, q) == p.style = q.style /\ p.profile = q.profile /\ p.key = q.key

Catalogues ==
  UNION {{s \in UNION {[1..n -> m] : n \in 0..MaxProperties} :
            \A i, j \in DOMAIN s : i # j => ~SameName(s[i], s[j])} :
         m \in {Eletta \cup CustomSlots, PrimaDonna \cup CustomSlots}}

\* async_press of a brew button, for a beverage found in that catalogue.
Press(c) ==
  /\ Asked(c)
  /\ \E catalogue \in Catalogues : \E key \in Available(catalogue), profile \in Profiles :
       Goes(c, [stage |-> IF HasRecipe(catalogue, profile, key) THEN "found" ELSE "notFound",
                catalogue |-> catalogue, key |-> key, profile |-> profile])

Chosen(c) == RecipeFor(order[c].catalogue, order[c].profile, order[c].key)

\* The cloud does not answer, or has no such recipe.
GiveUp(c) ==
  /\ order[c].stage \in {"asked", "notFound"}
  /\ Goes(c, Raised)

\* From here on the other properties play no part.
Take(c) ==
  /\ order[c].stage = "found"
  /\ Goes(c, [stage |-> "taken", profile |-> order[c].profile,
              iced |-> IsIced(order[c].key), coldBrew |-> IsColdBrew(order[c].key)])

\* The params of a recipe, each once; the low byte of a quantity, or a value, can
\* be equal to the id of a param.
Params == {<<1, 0, 28>>, <<9, 1, 25>>, <<15, 0, 150>>, <<28, 2>>, <<2, 9>>, <<25, 1>>, <<27, 1>>}
ParamLists ==
  {s \in UNION {[1..n -> Params] : n \in 0..MaxParams} :
     \A i, j \in DOMAIN s : i # j => s[i] # s[j]}

\* What the cloud stores begins with 0xD0 for a recipe, where one that is cut off ends
\* in half a param, or with 0x0D for a command, which ends in a profile; its length
\* need not be right.
Forms ==
  {[kind |-> "recipe", start |-> 208, stray |-> <<>>],
   [kind |-> "recipe", start |-> 208, stray |-> <<5>>],
   [kind |-> "command", start |-> 13, stray |-> <<6>>]}

Stored(start, params, stray) ==
  LET bytes == FlattenSeq(params) \o stray
  IN  <<start, 9 + Len(bytes), 166, 240, 1, 7>> \o bytes \o Crc

Decode(c) ==
  /\ order[c].stage = "taken"
  /\ \E params \in ParamLists, form \in Forms :
       Goes(c, [stage |-> "decoded", kind |-> form.kind, params |-> params,
                recipe |-> Stored(form.start, params, form.stray),
                profile |-> order[c].profile,
                iced |-> order[c].iced, coldBrew |-> order[c].coldBrew])

\* Not base64, or less than 8 bytes.
Undecodable(c) ==
  /\ order[c].stage = "taken"
  /\ Goes(c, Raised)

-----------------------------------------------------------------------------
(* _pre_brew_check.                                                        *)

NotKnown == 99

\* What get_status answers: a state with alarms and the accessory of the monitor,
\* or "Unknown" for want of a monitor, or with one that is cut short.
Status ==
  [state : {"Ready", "Busy"}, blocking : BOOLEAN, accessory : {NotKnown, 0, 1, 2}]
    \cup [state : {"Unknown"}, blocking : {FALSE}, accessory : {NotKnown, 0, 1, 2}]

MayBrew(status, required) ==
  /\ status.state # "Busy"
  /\ ~status.blocking
  /\ required > 1 /\ status.accessory # NotKnown => status.accessory >= 2

\* The frame depends on nothing that happens after the check; it is put together here.
Check(c) ==
  /\ order[c].stage = "decoded"
  /\ \E status \in Status :
       LET o == order[c] IN
       Goes(c, IF ~MayBrew(status, RequiredAccessory(RawParams(o.recipe)))
               THEN Raised
               ELSE [stage |-> "checked", kind |-> o.kind, params |-> o.params,
                     accessory |-> status.accessory,
                     iced |-> o.iced, coldBrew |-> o.coldBrew, profile |-> o.profile,
                     frame |-> BrewCommand(o.recipe, o.iced, o.coldBrew, o.profile)])

\* The ping; only what the API client raises is caught around it, and the session
\* raises errors of its own.
Ping(c) ==
  /\ order[c].stage = "checked"
  /\ \/ Goes(c, [order[c] EXCEPT !.stage = "framed"])
     \/ Goes(c, Raised)

-----------------------------------------------------------------------------
(* brew_custom, behind the service, which passes on any number.            *)

Amounts == {<<>>} \cup {<<n>> : n \in Numbers} \cup {<<-n>> : n \in Numbers}
Wishes ==
  [beverage : {"espresso", "doppio", "latte_macchiato", "latte_macch", "tea", "mystery"},
   coffee : Amounts, water : Amounts, milk : Amounts,
   taste : {3, 300}, froth : {2}, temperature : {1}, profile : Profiles \cup {6}]

\* The frame is put together before the check, which sees the accessory alone.
Custom(c) ==
  /\ Asked(c)
  /\ \E asked \in Wishes, status \in Status :
       Goes(c, IF /\ asked.beverage # "mystery"
                  /\ ValidProfile(asked.profile)
                  /\ AreBytes(CustomCommand(asked))
                  /\ MayBrew(status, BeverageAccessory(asked.beverage))
               THEN [stage |-> "checked", kind |-> "custom", asked |-> asked,
                     accessory |-> status.accessory, frame |-> CustomCommand(asked)]
               ELSE Raised)

-----------------------------------------------------------------------------
(* The commands without a check and a ping.                                *)

Beans ==
  [slot : {1, 7, 8}, name : {<<>>, <<0, 65>>, [i \in 1..42 |-> 0]},
   temperature : {10, 256}, intensity : {2}, grinder : {4}, flag1 : {0}, flag2 : {1, 2}]

Framed(frame) == [stage |-> "framed", kind |-> "plain", frame |-> frame]

\* An argument out of range is refused before there is a frame.
Try(c, valid, frame) == Goes(c, IF valid THEN Framed(frame) ELSE Raised)

Plain(c) ==
  /\ Asked(c)
  /\ \/ Try(c, TRUE, CancelCommand)
     \/ \E p \in Profiles \cup {0} : Try(c, ValidProfile(p), ProfileCommand(p))
     \/ \E s \in {1, 7, 8} :
          \/ Try(c, ValidSlot(s), BeanSelectCommand(s))
          \/ Try(c, ValidSlot(s), BeanReadCommand(s))
     \/ \E b \in Beans : Goes(c, IF ValidBean(b) THEN Framed(BeanWriteCommand(b)) ELSE Raised)

\* send_command is called with the frame.
HandOver(c) ==
  /\ order[c].stage = "framed"
  /\ Goes(c, [stage |-> "sent"])

-----------------------------------------------------------------------------

Prepare(c) ==
  \/ Press(c) \/ GiveUp(c) \/ Take(c) \/ Decode(c) \/ Undecodable(c) \/ Check(c) \/ Ping(c)
  \/ Custom(c)
  \/ Plain(c)
  \/ HandOver(c)

\* A step of SendCommand.
Send ==
  /\ \A c \in Call : order[c].stage \in {"sent", "raised"}
  /\ Backfill \/ \E c \in Call : order[c].stage = "sent" /\ SendStep(c)
  /\ UNCHANGED order

BrewNext == Send \/ \E c \in Brews : Prepare(c)
BrewSpec == BrewInit /\ [][BrewNext]_brewVars

-----------------------------------------------------------------------------
(* Properties.                                                             *)

Underway(stages) == {c \in Call : order[c].stage \in stages}

\* A button that parse_available_beverages gave rise to works for every profile,
\* as long as one recipe of its beverage is filled in: what the list counts as a
\* beverage, the search of brew_beverage finds. And the recipe that it takes is of
\* the beverage that was pressed, of the selected profile if that has one, in
\* whichever order the cloud lists them - unless the key begins another key.
RecipeIsTheBeverages ==
  /\ \A c \in Underway({"notFound"}) :
       ~\E p \in ToSet(order[c].catalogue) : Usable(p) /\ p.key = order[c].key
  /\ \A c \in Underway({"found"}) :
       LET o == order[c]
           listed == ToSet(o.catalogue)
       IN  (\A p \in listed : IsPrefix(o.key, p.key) => p.key = o.key) =>
             /\ Usable(Chosen(c))
             /\ Chosen(c).key = o.key
             /\ (\E p \in listed : Usable(p) /\ p.key = o.key /\ p.profile = o.profile) =>
                  Chosen(c).profile = o.profile

Sensible(o, param) == param[1] \notin Excluded(o.iced, o.coldBrew)

\* _recipe_to_brew_command walks bytes: it finds the params that the recipe was
\* made of, also where a value looks like the id of a param and where the recipe
\* is cut off, and the command holds them in order, less the ones left out.
CommandCarriesRecipe ==
  \A c \in Underway({"checked"}) :
    LET o == order[c] IN
    o.kind = "recipe" =>
      SubSeq(o.frame, 7, Len(o.frame) - 2) =
           FlattenSeq([n \in DOMAIN o.params |->
                         IF Sensible(o, o.params[n]) THEN o.params[n] ELSE <<>>])
             \o Trailer(o.iced, o.coldBrew) \o <<o.profile * 4 + 2>>

\* Every frame given to send_command has its length in the second byte and holds
\* bytes only, whatever numbers a service was called with - but for a command the
\* cloud has stored, which is sent as it is.
FramesWellFormed ==
  \A c \in Underway({"checked", "framed"}) :
    LET frame == order[c].frame IN
    order[c].kind # "command" =>
      /\ frame[1] = 13
      /\ frame[2] = Len(frame) - 1
      /\ AreBytes(frame)

\* The params of a frame, as the machine reads them.
BodyOf(frame) == SubSeq(frame, 7, Len(frame) - 3)
ReadParams(frame) == ToSet(Parsed(BodyOf(frame)))

\* A command that needs the milk module is not sent while the monitor says that
\* it is not there: the check reads the same accessory as the machine will, which
\* for a recipe, or a stored command, lies among the bytes, and for a custom drink in
\* a made-up recipe.
NoMilkWithoutModule ==
  \A c \in Underway({"checked"}) :
    <<Accessorio, 2>> \in ReadParams(order[c].frame) => order[c].accessory \in {NotKnown, 2}

\* The quantities in a frame, as the machine reads them: by the id of the param.
ReadQuantities(frame) ==
  {<<p[1], p[2] * 256 + p[3]>> : p \in {q \in ReadParams(frame) : q[1] \in BigParams}}

Asks(id, amount) == {<<id, n % 65536>> : n \in ToSet(amount)}

\* The quantities that the machine reads out of a custom brew are the ones the
\* service was called with, as far as 16 bits go, each under its own id, and one
\* left out is not there at all: for any integer, also a negative one.
MachineReadsWish ==
  \A c \in Underway({"checked"}) :
    LET o == order[c] IN
    o.kind = "custom" =>
      ReadQuantities(o.frame)
        = Asks(1, o.asked.coffee) \cup Asks(15, o.asked.water) \cup Asks(9, o.asked.milk)

\* Claim (services.yaml, brew_custom: "Amount of coffee in mL (20-240)"): a custom
\* brew has the machine make the amount of coffee that was given, in these limits.
\* The service checks nothing, and what does not fit 16 bits is cut to them.
CoffeeWithinLimits ==
  \A c \in Underway({"checked"}) :
    LET o == order[c] IN
    o.kind = "custom" =>
      \A q \in ReadQuantities(o.frame) :
        q[1] = 1 => q[2] \in 20 .. 240 /\ o.asked.coffee = <<q[2]>>

\* Claim (button.py: "Brew the beverage using the selected profile's recipe"): the
\* same without the exception; the search for a substring finds a longer key too.
BrewsThatBeverage == \A c \in Underway({"found"}) : Chosen(c).key = order[c].key

=============================================================================
