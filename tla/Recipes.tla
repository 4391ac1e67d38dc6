------------------------------- MODULE Recipes -------------------------------
(***************************************************************************)
(* The commands DeLonghiApi builds, custom_components/delonghi_coffee/     *)
(* api.py: which beverages it finds among the cloud properties, which      *)
(* recipe it takes for one of them and what it makes of it, and the other  *)
(* command frames.  Bytes are numbers; the two bytes of the CRC are Crc.   *)
(*                                                                         *)
(* A beverage key is the sequence of its parts, "espresso_lungo" being     *)
(* <<"espresso", "lungo">>: one key is a prefix of another here just when  *)
(* it is one as a string.  A property name is the key with the profile     *)
(* written before it, after it, or not at all:                             *)
(*   "last"  d302_rec_2_espresso   (Eletta Explore)                        *)
(*   "first" d060_2_rec_espresso   (PrimaDonna Soul)                       *)
(*   "none"  d001_rec_espresso, d240_rec_custom_1                          *)
(***************************************************************************)
EXTENDS Integers, Sequences, SequencesExt

Crc == <<0, 0>>
Usable(property) == property.value = "recipe"

-----------------------------------------------------------------------------
(* parse_available_beverages.                                              *)

TemplateKeys == {<<"default">>, <<"bs", "recipe">>}
IsCustom(key) == key[1] = "custom"

\* A slot for a custom drink counts when it holds something, any other recipe
\* when its name is there.
Offers(property) ==
  IF IsCustom(property.key)
  THEN property.style = "none" /\ Usable(property)
  ELSE property.key \notin TemplateKeys

Available(properties) ==
  {p.key : p \in {q \in ToSet(properties) : Offers(q)}}

-----------------------------------------------------------------------------
(* brew_beverage: the recipe.  The names are searched for a substring, so  *)
(* that a longer key matches too; and in the order of the cloud's answer.  *)

Named(property, profile, key) ==
  /\ property.style \in {"last", "first"}
  /\ property.profile = profile
  /\ IsPrefix(key, property.key)

MutOwn(property, profile, key) ==
  property.style = "last" /\ Named(property, profile, key)
Own(property, profile, key) == Named(property, profile, key)

Fallback(property, profile, key) ==
  \/ property.style \in {"first", "none"} /\ property.key = key
  \/ \E p \in (1 .. 5) \ {profile} : Named(property, p, key)

OwnRecipes(properties, profile, key) ==
  {i \in DOMAIN properties : Usable(properties[i]) /\ Own(properties[i], profile, key)}
FallbackRecipes(properties, profile, key) ==
  {i \in DOMAIN properties : Usable(properties[i]) /\ Fallback(properties[i], profile, key)}

First(places) == CHOOSE i \in places : \A j \in places : i <= j

\* The first recipe of the selected profile, or else the first that is a fallback.
HasRecipe(properties, profile, key) ==
  OwnRecipes(properties, profile, key) \cup FallbackRecipes(properties, profile, key) # {}
RecipeFor(properties, profile, key) ==
  LET own == OwnRecipes(properties, profile, key)
  IN  properties[First(IF own # {} THEN own ELSE FallbackRecipes(properties, profile, key))]

IsIced(key) ==
  \/ key[1] \in {"i", "mi"}
  \/ IsPrefix(<<"over", "ice">>, key)
  \/ IsPrefix(<<"mug", "i">>, key)
  \/ key = <<"brew", "over", "ice">>
IsColdBrew(key) == \E i \in 2 .. Len(key) - 1 : key[i] = "cb"

-----------------------------------------------------------------------------
(* _recipe_to_brew_command and _get_recipe_accessory.  A recipe is         *)
(* [D0 len A6 F0 profile beverage] params [CRC], a param is an id and one  *)
(* byte, or two bytes for the quantities.                                  *)

BigParams == {1, 9, 15}
Accessorio == 28

\* The bytes that the param at i takes up, 0 for a stray last byte.
MutWidth(raw, i) == IF i + 1 <= Len(raw) THEN 2 ELSE 0
Width(raw, i) ==
  CASE raw[i] \in BigParams /\ i + 2 <= Len(raw) -> 3
    [] ~(raw[i] \in BigParams /\ i + 2 <= Len(raw)) /\ i + 1 <= Len(raw) -> 2
    [] OTHER -> 0

\* Nothing, or a stray byte, is left at i: the walk ends.
Ends(raw, i) == i > Len(raw) \/ Width(raw, i) = 0

ParamAt(raw, i) == SubSeq(raw, i, i + Width(raw, i) - 1)

\* The params, in order.
Parsed(raw) ==
  LET from[i \in 1 .. Len(raw) + 1] ==
        IF Ends(raw, i) THEN <<>> ELSE <<ParamAt(raw, i)>> \o from[i + Width(raw, i)]
  IN  from[1]

Kept(raw, excluded) ==
  LET params == Parsed(raw)
  IN  FlattenSeq([n \in DOMAIN params |-> IF params[n][1] \in excluded THEN <<>> ELSE params[n]])

\* The accessory of the recipe, 0 for none: whatever is not mounted comes as 0.
MutRequiredAccessory(raw) ==
  LET found == {i \in 1 .. Len(raw) - 1 : raw[i] = Accessorio /\ i % 2 = 1}
  IN  IF found = {} THEN 0 ELSE raw[Max(found) + 1]
RequiredAccessory(raw) ==
  LET params == Parsed(raw)
      found == {n \in DOMAIN params : params[n][1] = Accessorio}
  IN  IF found = {} THEN 0 ELSE params[First(found)][2]

\* VISIBLE and IDX_LEN never go into a command, the quantities not when it is cold.
Excluded(iced, coldBrew) == {25, 27} \cup IF iced \/ coldBrew THEN BigParams ELSE {}

\* IDX_LEN; ICED, with INTENSITY for a cold brew; RINSE.
Trailer(iced, coldBrew) ==
  <<27, 1>> \o (IF iced THEN <<31, 0>> ELSE IF coldBrew THEN <<31, 3, 38, 1>> ELSE <<>>)
    \o <<39, 1>>

MutBrewFrame(beverage, params, profile) ==
  <<13, 6 + Len(params) + 1, 131, 240, beverage, 3>> \o params \o <<profile * 4 + 2>> \o Crc
BrewFrame(beverage, params, profile) ==
  <<13, 6 + Len(params) + 1 + 2 - 1, 131, 240, beverage, 3>> \o params
    \o <<profile * 4 + 2>> \o Crc

RawParams(recipe) == SubSeq(recipe, 7, Len(recipe) - 2)

\* What begins with 0x0D is taken for a command.
BrewCommand(recipe, iced, coldBrew, profile) ==
  IF recipe[1] = 13
  THEN recipe
  ELSE BrewFrame(recipe[6],
                 Kept(RawParams(recipe), Excluded(iced, coldBrew)) \o Trailer(iced, coldBrew),
                 profile)

-----------------------------------------------------------------------------
(* brew_custom.  An argument that can be None is <<>> or <<n>>.             *)

\* A few of _BEVERAGE_IDS, and of _BEVERAGE_ACCESSORY.
BeverageId(beverage) ==
  CASE beverage = "espresso" -> 1
    [] beverage = "doppio" -> 5
    [] beverage = "latte_macchiato" -> 8
    [] beverage = "latte_macch" -> 8
    [] beverage = "tea" -> 22
BeverageAccessory(beverage) == IF beverage = "latte_macchiato" THEN 2 ELSE 0

\* [id, hi, lo] of the low 16 bits of any integer, nothing for None.
MutQuantity(id, amount) ==
  IF amount = <<>> THEN <<>> ELSE <<id, amount[1] % 256, (amount[1] \div 256) % 256>>
Quantity(id, amount) ==
  IF amount = <<>> THEN <<>> ELSE <<id, (amount[1] \div 256) % 256, amount[1] % 256>>

CustomParams(asked) ==
  LET accessory == BeverageAccessory(asked.beverage) IN
     (IF accessory = 0 THEN <<>> ELSE <<Accessorio, accessory, 11, asked.froth>>)
  \o (CASE asked.beverage = "espresso" -> <<8, 0>>
        [] asked.beverage = "doppio" -> <<8, 1>>
        [] OTHER -> <<>>)
  \o Quantity(1, asked.coffee)
  \o Quantity(15, asked.water)
  \o <<27, 1, 2, asked.taste>>
  \o Quantity(9, asked.milk)
  \o (IF asked.beverage = "tea" THEN <<13, asked.temperature>> ELSE <<>>)
  \o <<39, 1>>

CustomCommand(asked) ==
  BrewFrame(BeverageId(asked.beverage), CustomParams(asked), asked.profile)

\* A value that is no byte raises ValueError where the bytes are put together.
AreBytes(frame) == \A i \in 1 .. Len(frame) : frame[i] \in 0 .. 255

-----------------------------------------------------------------------------
(* The other commands: cancel_brew, set_active_profile, select_bean_system,*)
(* read_bean_system and write_bean_system.                                 *)

CancelCommand == <<13, 4, 143>> \o Crc
ProfileCommand(profile) == <<13, 5, 169, profile>> \o Crc
BeanSelectCommand(slot) == <<13, 5, 185, slot>> \o Crc
BeanReadCommand(slot) == <<13, 5, 186, slot>> \o Crc

BeanNameMax == 40

\* A name is the sequence of its UTF-16-BE bytes, padded with zeros.
BeanPayload(bean) ==
  <<bean.slot>>
    \o bean.name \o [i \in 1 .. BeanNameMax - Len(bean.name) |-> 0]
    \o <<bean.temperature, bean.intensity, bean.grinder, bean.flag1, bean.flag2>>
BeanWriteCommand(bean) ==
  <<13, Len(BeanPayload(bean)) + 4, 187>> \o BeanPayload(bean) \o Crc

ValidProfile(profile) == profile \in 1 .. 5
ValidSlot(slot) == slot \in 1 .. 7
ValidBean(bean) ==
  /\ ValidSlot(bean.slot)
  /\ {bean.temperature, bean.intensity, bean.grinder} \subseteq 0 .. 255
  /\ {bean.flag1, bean.flag2} \subseteq {0, 1}
  /\ Len(bean.name) <= BeanNameMax

=============================================================================
