-------------------------------- MODULE Specs --------------------------------
(***************************************************************************)
(* What a build is made of: the daemon asks the catalogue for one part     *)
(* after another, any of which may fail or answer in part, and names the   *)
(* values that are no specification (build_config.rs, apply up to the push *)
(* of the parameters).  The request is what Wire reads off the socket.     *)
(*                                                                         *)
(* A value is represented by where it came from.                           *)
(***************************************************************************)
EXTENDS Wire

CONSTANTS
    FcAnswers,          \* catalogue entries of flight controllers
    HoverRequired       \* throttles in percent that a build may need to hover

ASSUME AnswersAssumption ==
    FcAnswers \subseteq
        [weightG : BOOLEAN, gyro : {"", "icm42688", "icm42688p", "unheard of"},
         barometer : {"", "none", "bmp390", "unheard of"},
         magnetometer : {"", "none", "rm3100", "unheard of"}]

ASSUME HoverAssumption == HoverRequired \subseteq Nat

VARIABLES
    at,                 \* what apply is about to do
    spec,               \* BuildSpec: where each of its values came from
    limit_prov,         \* LimitProvenance: the limits the catalogue supplied
    estimated_masses,
    config              \* what the build came to, once it is computed

partVars == <<spec, limit_prov, estimated_masses>>

allVars == <<vars, at, partVars, config>>

request == got[1]

------------------------------------------------------------------------------
(* Parts by name: of every table the model keeps one entry.                *)

parse_imu_chip(s) == IF s \in {"icm42688", "icm42688p"} THEN "Icm42688p" ELSE "Other"

parse_baro_chip(s) == IF s \in {"bmp388", "bmp390"} THEN "Bmp388" ELSE "Other"

parse_mag_chip(s) ==
    CASE s = "rm3100" -> "Rm3100" [] s = "none" -> "None" [] OTHER -> "Other"

parse_gps_chipset(s) == IF s = "m9" THEN "UbloxM9N" ELSE "Other"

parse_frame_material(s) == IF s \in {"carbon", "cf"} THEN "Carbon" ELSE "Other"

fc_baro_listed(s) == s # "none"

\* The chips of the reference build are not parts of this one.
new_build_spec ==
    [motor_weight |-> "default", resistance |-> "heuristic",
     prop_pitch |-> "derived", prop_weight |-> "default",
     frame_weight |-> "request", wheelbase |-> "default", material |-> "default",
     esc_continuous |-> "default", esc_burst |-> "derived", esc_weight |-> "default",
     fc_weight |-> "default", imu_chip |-> "", baro_chip |-> "", mag_chip |-> "",
     battery_weight |-> "estimate", c_rating |-> "default",
     gps |-> "", gps_rate |-> "default", gps_weight |-> "none"]

------------------------------------------------------------------------------
(* Sensor noise: which rule decides, and what it is said to be.            *)

match_type_label(mt) ==
    CASE mt = <<>> -> "default"
      [] mt \in {<<"exact">>, <<"mcu_family">>, <<"average">>} -> mt[1]
      [] OTHER -> "unknown"

Profile(r) == <<"profile", match_type_label(r.sensor_match_type)>>

\* The part, unless it is missing or Other.
named_part(chip) == IF chip \in {"", "Other"} THEN "" ELSE chip

pick_value(r, chip, field) ==
    IF named_part(chip) # ""
    THEN [value |-> <<"table", chip>>, source |-> <<"table", named_part(chip)>>]
    ELSE IF field \in r.profile
    THEN [value |-> <<"profile", field>>, source |-> Profile(r)]
    ELSE [value |-> <<"table", "Other">>, source |-> <<"other">>]

\* For a build without that sensor.
HitlDefault(r, field) ==
    IF field \in r.profile THEN [value |-> <<"profile", field>>, source |-> Profile(r)]
    ELSE [value |-> <<"default", field>>, source |-> <<"default">>]

imu_config(r, s) == [f \in {"gyro", "accel"} |-> pick_value(r, s.imu_chip, f)]

baro_config(r, s) == [f \in {"baro"} |-> pick_value(r, s.baro_chip, f)]

mag_config(r, s) ==
    [f \in {"mag"} |-> IF s.mag_chip \in {"", "None"} THEN HitlDefault(r, f)
                       ELSE pick_value(r, s.mag_chip, f)]

module_gps_config(r, s) == [f \in {"h", "alt", "vel"} |-> pick_value(r, s.gps, f)]

default_gps_config(r) == [f \in {"h", "alt", "vel"} |-> HitlDefault(r, f)]

gps_config(r, s) == IF s.gps = "" THEN default_gps_config(r) ELSE module_gps_config(r, s)

\* One source when all fields agree on it, else the source of each.
shared_source(sensor) ==
    LET sources == {sensor[f].source : f \in DOMAIN sensor} IN
    IF \E source \in sources : sources = {source}
    THEN [f \in {"all"} |-> CHOOSE source \in sources : TRUE]
    ELSE [f \in DOMAIN sensor |-> sensor[f].source]

build_sensors_config(r, s) ==
    LET sensors == [imu |-> imu_config(r, s), baro |-> baro_config(r, s),
                    mag |-> mag_config(r, s), gps |-> gps_config(r, s)] IN
    [values |-> [k \in DOMAIN sensors |->
                    [f \in DOMAIN sensors[k] |-> sensors[k][f].value]],
     sources |-> [k \in DOMAIN sensors |-> shared_source(sensors[k])]]

------------------------------------------------------------------------------
(* Current limits and hover.                                               *)

\* estimated_limits
current_limits(prov) ==
    {l \in {"battery_c_rating", "battery_max_current_a"} : "c_rating" \notin prov}
    \cup {l \in {"esc_continuous_current_a"} : "esc_continuous" \notin prov}
    \cup {l \in {"esc_burst_current_a"} : "esc_burst" \notin prov}
    \cup {l \in {"max_current_per_motor_a"} : ~({"c_rating", "esc_burst"} \subseteq prov)}

Clamp(x, lo, hi) == IF x < lo THEN lo ELSE IF x > hi THEN hi ELSE x

\* In percent; thr_min is three tenths of it, in a thousandth.
HoverCmd(required) == Clamp(required, 10, 80)

ThrMin(hover) == Clamp(3 * hover, 50, 200)

------------------------------------------------------------------------------
(* apply.                                                                  *)

\* BATTERY_FIT_MIN_MAH, BATTERY_FIT_MAX_MAH
FitMin == 1100
FitMax == 4500

Steps == <<"location", "motor", "prop", "frame", "esc", "fc", "battery", "gps",
           "compute">>

After(step) == Steps[1 + CHOOSE i \in DOMAIN Steps : Steps[i] = step]

Slug == [motor |-> "motor_slug", prop |-> "prop_slug", frame |-> "frame_slug",
         esc |-> "esc_slug", fc |-> "fc_slug", battery |-> "battery_slug",
         gps |-> "gps_slug"]

Named(step) == step = "motor" \/ request[Slug[step]] # <<>>

NoSpec == <<>>

SpecsInit ==
    /\ Init
    /\ at = "idle"
    /\ spec = NoSpec
    /\ limit_prov = {}
    /\ estimated_masses = {}
    /\ config = NoSpec

\* handle passes the request to apply.
Begin ==
    /\ at = "idle"
    /\ Accepted
    /\ request.kind = "ConfigureBuild"
    /\ at' = "location"
    /\ UNCHANGED <<vars, partVars, config>>

\* resolve_flight_location: a location that is missing is the default one, one
\* that is no place on Earth fails the build.
ResolveLocation ==
    /\ at = "location"
    /\ IF request.flight_location = <<"invalid">>
       THEN /\ at' = "failed"
            /\ UNCHANGED spec
       ELSE /\ at' = "motor"
            /\ spec' = new_build_spec
    /\ UNCHANGED <<vars, limit_prov, estimated_masses, config>>

\* The masses that the code counts as estimated.
MassUnknown(step) ==
    CASE step = "prop" -> {"propeller"}
      [] step = "battery" ->
            {"battery"} \cup {m \in {"battery (extrapolated)"} :
                request.battery_capacity_mah[1] \notin FitMin..FitMax}
      [] OTHER -> {}

\* Mutant of FetchFails: a part that was not found is not said to be estimated.
FetchFailsQuietly(step) ==
    /\ at = step
    /\ at' = IF step = "motor" THEN "failed" ELSE After(step)
    /\ UNCHANGED <<vars, partVars, config>>

\* The request fails, is answered with an error or without specs, or the build
\* names no such part: the defaults stand, but no build flies without a motor.
FetchFails(step) ==
    /\ at = step
    /\ at' = IF step = "motor" THEN "failed" ELSE After(step)
    /\ estimated_masses' = estimated_masses \cup MassUnknown(step)
    /\ UNCHANGED <<vars, spec, limit_prov, config>>

\* The keys of an answer that are in it, of those that are asked for.
Told(answer, keys) == {k \in keys : answer[k]}

From(answer, key, otherwise) == IF answer[key] THEN "catalogue" ELSE otherwise

FetchMotor(answer) ==
    /\ at = "motor"
    /\ IF answer.kvRating
       THEN /\ at' = "prop"
            /\ spec' = [spec EXCEPT !.motor_weight = From(answer, "weightG", @),
                                    !.resistance = From(answer, "resistanceOhm", @)]
       ELSE /\ at' = "failed"
            /\ UNCHANGED spec
    /\ UNCHANGED <<vars, limit_prov, estimated_masses, config>>

FetchProp(answer) ==
    /\ at = "prop" /\ Named("prop")
    /\ at' = "frame"
    /\ spec' = [spec EXCEPT !.prop_pitch = From(answer, "pitchIn", @),
                            !.prop_weight = From(answer, "weightG", @)]
    /\ estimated_masses' =
            estimated_masses \cup IF answer.weightG THEN {} ELSE MassUnknown("prop")
    /\ UNCHANGED <<vars, limit_prov, config>>

\* The weight of the frame stays the page's.
FetchFrame(material) ==
    /\ at = "frame" /\ Named("frame")
    /\ at' = "esc"
    /\ spec' = [spec EXCEPT !.wheelbase = "catalogue",
                            !.material = parse_frame_material(material)]
    /\ UNCHANGED <<vars, limit_prov, estimated_masses, config>>

apply_esc_catalogue(s, answer) ==
    [s EXCEPT !.esc_continuous = From(answer, "esc_continuous", @),
              !.esc_burst = From(answer, "esc_burst", @),
              !.esc_weight = From(answer, "weightG", @)]

\* Single ESCs weigh as many times as there are, in the physics.
FetchEsc(answer) ==
    /\ at = "esc" /\ Named("esc")
    /\ at' = "fc"
    /\ spec' = apply_esc_catalogue(spec, answer)
    /\ limit_prov' = limit_prov \cup Told(answer, {"esc_continuous", "esc_burst"})
    /\ UNCHANGED <<vars, estimated_masses, config>>

\* A barometer that is listed as none leaves none named.
apply_fc_catalogue(s, answer) ==
    [s EXCEPT
        !.fc_weight = From(answer, "weightG", @),
        !.imu_chip = IF answer.gyro = "" THEN @ ELSE parse_imu_chip(answer.gyro),
        !.baro_chip = IF answer.barometer # "" /\ fc_baro_listed(answer.barometer)
                      THEN parse_baro_chip(answer.barometer) ELSE @,
        !.mag_chip = IF answer.magnetometer = "" THEN @
                     ELSE parse_mag_chip(answer.magnetometer)]

FetchFc(answer) ==
    /\ at = "fc" /\ Named("fc")
    /\ at' = "battery"
    /\ spec' = apply_fc_catalogue(spec, answer)
    /\ UNCHANGED <<vars, limit_prov, estimated_masses, config>>

\* No rating is taken that is not positive.
apply_battery_c_rating(s, answer) ==
    [s EXCEPT !.c_rating = IF answer.dischargeRateC > 0 THEN "catalogue" ELSE @]

FetchBattery(answer) ==
    /\ at = "battery" /\ Named("battery")
    /\ at' = "gps"
    /\ spec' = apply_battery_c_rating(
                    [spec EXCEPT !.battery_weight = From(answer, "weightG", @)], answer)
    /\ limit_prov' = limit_prov \cup {p \in {"c_rating"} : answer.dischargeRateC > 0}
    /\ estimated_masses' =
            estimated_masses \cup IF answer.weightG THEN {} ELSE MassUnknown("battery")
    /\ UNCHANGED <<vars, config>>

FetchGps(chipset) ==
    /\ at = "gps" /\ Named("gps")
    /\ at' = "compute"
    /\ spec' = [spec EXCEPT !.gps = parse_gps_chipset(chipset),
                            !.gps_rate = "catalogue", !.gps_weight = "catalogue"]
    /\ UNCHANGED <<vars, limit_prov, estimated_masses, config>>

\* The physics, what the page is told of it, and the parameters of the push.
Compute(required) ==
    /\ at = "compute"
    /\ at' = "done"
    /\ config' = [sensors |-> build_sensors_config(request, spec),
                  estimated_limits |-> current_limits(limit_prov),
                  hover_required |-> required,
                  can_hover |-> required < 100,
                  hover_cmd |-> HoverCmd(required),
                  thr_min |-> ThrMin(HoverCmd(required))]
    /\ UNCHANGED <<vars, partVars>>

SpecsNext ==
    \/ Begin
    \/ ResolveLocation
    \/ \E step \in DOMAIN Slug : FetchFails(step)
    \/ \E answer \in [kvRating : BOOLEAN, weightG : BOOLEAN, resistanceOhm : {TRUE}] :
            FetchMotor(answer)
    \/ \E answer \in [pitchIn : {TRUE}, weightG : BOOLEAN] : FetchProp(answer)
    \/ FetchFrame("carbon")
    \/ \E answer \in [esc_continuous : BOOLEAN, esc_burst : BOOLEAN, weightG : {TRUE}] :
            FetchEsc(answer)
    \/ \E answer \in FcAnswers : FetchFc(answer)
    \/ \E answer \in [weightG : BOOLEAN, dischargeRateC : {0, 75}] : FetchBattery(answer)
    \/ \E chipset \in {"m9", "unheard of"} : FetchGps(chipset)
    \/ \E required \in HoverRequired : Compute(required)

\* The socket and apply, one after the other.
ConfigureNext == SpecsNext \/ (Next /\ UNCHANGED <<at, partVars, config>>)

ConfigureSpec == SpecsInit /\ [][ConfigureNext]_allVars

------------------------------------------------------------------------------
(* Properties.                                                             *)

\* "A client never presents an estimate as a specification": a limit is named as
\* estimated exactly when the figure that the physics uses is not the
\* catalogue's, and the cap of a motor when one of the two it is computed from
\* is not (LimitProvenance, current_limits).
LimitsHonest ==
    at = "done" =>
        LET estimated == config.estimated_limits IN
        /\ "battery_c_rating" \in estimated <=> spec.c_rating # "catalogue"
        /\ "battery_max_current_a" \in estimated <=> spec.c_rating # "catalogue"
        /\ "esc_continuous_current_a" \in estimated <=> spec.esc_continuous # "catalogue"
        /\ "esc_burst_current_a" \in estimated <=> spec.esc_burst # "catalogue"
        /\ "max_current_per_motor_a" \in estimated <=>
                "catalogue" # spec.esc_burst \/ "catalogue" # spec.c_rating

\* The same of the masses that are disclosed, the propeller's and the battery's,
\* whether the part was not named, not found or answered without a weight: a
\* battery outside the range that the estimate was fitted over is named once more
\* (estimated_masses, apply).
MassesHonest ==
    at = "done" =>
        /\ "propeller" \in estimated_masses <=> spec.prop_weight # "catalogue"
        /\ "battery" \in estimated_masses <=> spec.battery_weight # "catalogue"
        /\ "battery (extrapolated)" \in estimated_masses <=>
                /\ spec.battery_weight # "catalogue"
                /\ sent.battery_capacity_mah # <<>>
                /\ sent.battery_capacity_mah[1] \notin FitMin..FitMax

\* A build that is accepted says of every figure that it discloses where it came
\* from, whichever of the catalogue's answers failed or lacked it (apply).
EstimatesDisclosed == LimitsHonest /\ MassesHonest

==============================================================================
