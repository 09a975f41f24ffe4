----------------------------- MODULE TagModels ------------------------------
(***************************************************************************)
(* What the tags of a fleet can show, and what they are told to show: the  *)
(* catalogues of the five vendors, the degradation ladder, and the         *)
(* encoding of a plan in each vendor's dialect.                            *)
(***************************************************************************)
EXTENDS ColorLanes, Integers, FiniteSetsExt

Modes         == {"pick_to_light", "lane_colour_steady", "label_badge", "mono_indicator", "none"}
FlashPatterns == {"slow", "fast", "double_pulse"}
Nothing       == "-"    \* null: no colour, no pattern

StandardDegradationLadder ==
    <<"pick_to_light", "lane_colour_steady", "label_badge", "mono_indicator", "none">>

\* Width 0 stands for a tag with no text area; intervals are in seconds.
Model(modes, colours, patterns, width, interval) ==
    [modes |-> modes, colours |-> colours, flashPatterns |-> patterns,
     maxBadgeCharacters |-> width, minCommandInterval |-> interval]

\* validity: whether a command says when the tag goes dark as an instant or as a
\* duration.  ledWhite: a blink without a lane colour is sent as white.
Profile(models, floor, batch, lease, battery, refusals, validity, ledWhite) ==
    [models |-> models, floorModelCode |-> floor, batchLimit |-> batch, lease |-> lease,
     minBattery |-> battery, refusalCodes |-> refusals, validity |-> validity,
     ledWhite |-> ledWhite, ladder |-> StandardDegradationLadder]

Aperion == Profile(
    [Lumina  |-> Model({"lane_colour_steady", "label_badge", "mono_indicator"},
                       {"red", "amber", "blue", "white", "green"}, <<>>, 32, 1),
     Classic |-> Model({"label_badge"}, {}, <<>>, 24, 10)],
    "Classic", 25, 2, 12,
    [tag_unknown |-> "tag_unbound", tag_not_associated |-> "tag_unbound",
     no_tag_for_facing |-> "facing_has_no_tag", tag_unreachable |-> "tag_offline",
     battery_critical |-> "battery_too_low", site_not_provisioned |-> "store_not_onboarded",
     rate_limit |-> "rate_limited", hub_offline |-> "fleet_unreachable"],
    "instant", FALSE)

Hashow == Profile(
    [HsPlus |-> Model({"lane_colour_steady", "label_badge", "mono_indicator"},
                      {"red", "amber", "blue"}, <<"slow">>, 14, 15),
     HsLite |-> Model({"mono_indicator"}, {}, <<"slow", "fast">>, 0, 15)],
    "HsLite", 20, 3, 20,
    [esl_not_found |-> "tag_unbound", esl_not_bound |-> "tag_unbound",
     no_esl |-> "facing_has_no_tag", esl_no_response |-> "tag_offline",
     battery_low |-> "battery_too_low", shop_not_open |-> "store_not_onboarded",
     busy |-> "rate_limited", ap_error |-> "fleet_unreachable"],
    "duration", FALSE)

Pricer == Profile(
    [SmartFlash |-> Model({"pick_to_light", "lane_colour_steady", "label_badge"},
                          {"red", "amber", "green", "blue", "cyan", "white", "purple"},
                          <<"slow", "fast">>, 18, 2),
     Continuum  |-> Model({"lane_colour_steady", "label_badge"},
                          {"red", "green", "blue"}, <<>>, 18, 2)],
    "Continuum", 50, 6, 15,
    [UNKNOWN_ITEM |-> "tag_unbound", NO_LABEL_FOR_ITEM |-> "facing_has_no_tag",
     LABEL_OFFLINE |-> "tag_offline", BATTERY_DEPLETED |-> "battery_too_low",
     STORE_NOT_CONFIGURED |-> "store_not_onboarded", TOO_MANY_REQUESTS |-> "rate_limited",
     TRANSCEIVER_OFFLINE |-> "fleet_unreachable"],
    "duration", FALSE)

\* Mutant: the fast pattern is listed first.
MutantSolum == Profile(
    [Touch |-> Model({"label_badge", "mono_indicator"}, {},
                     <<"fast", "slow", "double_pulse">>, 20, 3),
     Paper |-> Model({"label_badge"}, {}, <<>>, 20, 3)],
    "Paper", 200, 8, 8, [E_THROTTLE |-> "rate_limited"], "instant", FALSE)

Solum == Profile(
    [Touch |-> Model({"label_badge", "mono_indicator"}, {},
                     <<"slow", "fast", "double_pulse">>, 20, 3),
     Paper |-> Model({"label_badge"}, {}, <<>>, 20, 3)],
    "Paper", 200, 8, 8,
    [E_LABEL_NOT_FOUND |-> "tag_unbound", E_NO_LABEL |-> "facing_has_no_tag",
     E_LABEL_TIMEOUT |-> "tag_offline", E_BATTERY |-> "battery_too_low",
     E_STORE_NOT_FOUND |-> "store_not_onboarded", E_THROTTLE |-> "rate_limited",
     E_AP_DISCONNECTED |-> "fleet_unreachable"],
    "instant", FALSE)

Vusion == Profile(
    [Edge3  |-> Model(Modes \ {"none"}, LedColors, <<"slow", "fast", "double_pulse">>, 24, 1),
     Sigma2 |-> Model({"label_badge", "mono_indicator"}, {}, <<"slow">>, 16, 5)],
    "Sigma2", 100, 4, 10,
    [LABEL_NOT_FOUND |-> "tag_unbound", LABEL_UNREACHABLE |-> "tag_offline",
     LOW_BATTERY |-> "battery_too_low", STORE_UNKNOWN |-> "store_not_onboarded",
     QUOTA_EXCEEDED |-> "rate_limited", GATEWAY_DOWN |-> "fleet_unreachable"],
    "duration", TRUE)

\* The registry of fleets.
VendorProfiles == [aperion |-> Aperion, hashow |-> Hashow, pricer |-> Pricer,
                   solum |-> Solum, vusion |-> Vusion]

\* An unknown model code is taken for the least capable tag of the vendor.
ModelByCode(profile, code) ==
    IF code \in DOMAIN profile.models THEN profile.models[code]
    ELSE profile.models[profile.floorModelCode]

\* A refusal the profile does not list counts as an unreachable fleet.
RefusalReason(profile, code) ==
    IF code \in DOMAIN profile.refusalCodes THEN profile.refusalCodes[code]
    ELSE "fleet_unreachable"

\* What a store declares: the most any of its tags can do, and the narrowest
\* width and slowest pace of them.
UnionOfModels(models) ==
    LET widths == {m.maxBadgeCharacters : m \in models} \ {0}
    IN  [modes              |-> UNION {m.modes : m \in models},
         colours            |-> UNION {m.colours : m \in models},
         flashPatterns      |-> UNION {ToSet(m.flashPatterns) : m \in models},
         maxBadgeCharacters |-> IF widths = {} THEN 0 ELSE Min(widths),
         minCommandInterval |-> Max({m.minCommandInterval : m \in models} \cup {0})]

----------------------------------------------------------------------------
\* A command asks for a lane, a pattern and possibly a text, and names the rungs
\* it would accept: [lane, flashPattern, badge, modePreference].

LaneUsable(model, lane) == ~IsReservedLane(lane) /\ lane \in model.colours

BlinkFor(model, requested) ==
    IF requested \in ToSet(model.flashPatterns) THEN requested
    ELSE IF model.flashPatterns = <<>> THEN Nothing ELSE model.flashPatterns[1]

\* Whether the tag can manage a rung for this command.
Manages(command, model, mode) ==
    \/ mode = "none"
    \/ /\ mode \in model.modes
       /\ mode \in {"pick_to_light", "lane_colour_steady"} => LaneUsable(model, command.lane)
       /\ mode = "pick_to_light" =>
            command.flashPattern \in ToSet(model.flashPatterns) \cup {Nothing}
       /\ mode = "label_badge" => model.maxBadgeCharacters > 0 /\ command.badge

Rung(command, model, mode) ==
    [mode   |-> mode,
     colour |-> IF mode \in {"pick_to_light", "lane_colour_steady"} THEN command.lane ELSE Nothing,
     flash  |-> CASE mode = "pick_to_light" -> command.flashPattern
                  [] mode \in {"label_badge", "mono_indicator"} ->
                       IF "mono_indicator" \in model.modes
                       THEN BlinkFor(model, command.flashPattern) ELSE Nothing
                  [] OTHER -> Nothing,
     badge  |-> mode = "label_badge"]

\* The first rung of the caller's ladder the tag can manage.
PlanExpression(command, model) ==
    LET ladder == IF command.modePreference # <<>> THEN command.modePreference
                  ELSE StandardDegradationLadder
        fits == {i \in 1..Len(ladder) : Manages(command, model, ladder[i])}
        mode == IF fits = {} THEN "none" ELSE ladder[Min(fits)]
    IN  [rendering |-> Rung(command, model, mode), degraded |-> mode # ladder[1]]

----------------------------------------------------------------------------
\* What a tag that obeys an encoded command shows: the colour of its light, its
\* pattern and whether there is a text.  A vendor with one field for the light
\* sends a blink without a lane colour as white.  One definition for the encoders
\* of five vendors, which differ in wording, units and what profile says.
EncodeExpression(profile, rendering) ==
    [light   |-> IF rendering.colour = Nothing /\ rendering.flash # Nothing /\ profile.ledWhite
                 THEN "white" ELSE rendering.colour,
     pattern |-> rendering.flash,
     text    |-> rendering.badge]

EncodeRelease == [light |-> Nothing, pattern |-> Nothing, text |-> FALSE]

\* Mutant: a vendor that wants a duration is sent none.
MutantNoLifetime(profile, received, requestedAt, expiresAt) ==
    IF profile.validity = "instant" THEN expiresAt ELSE received + 1000

\* The instant a tag that receives a command goes dark.
DarkAt(profile, received, requestedAt, expiresAt) ==
    IF profile.validity = "instant" THEN expiresAt
    ELSE received + Max({0, expiresAt - requestedAt})
=============================================================================
