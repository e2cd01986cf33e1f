------------------------------- MODULE MCSpecs -------------------------------
EXTENDS Specs

\* Pages of several versions: one that knows of no part but the motor, one that
\* leaves out the sizes, one whose profile is partial, and one that errs.
Page(slugs, capacity, count, location, profile, match) ==
    [kind |-> "ConfigureBuild", motor_slug |-> "motor",
     prop_slug |-> IF slugs THEN <<"prop">> ELSE <<>>,
     frame_slug |-> IF slugs THEN <<"frame">> ELSE <<>>,
     esc_slug |-> IF slugs THEN <<"esc">> ELSE <<>>,
     fc_slug |-> IF slugs THEN <<"fc">> ELSE <<>>,
     battery_slug |-> IF slugs THEN <<"battery">> ELSE <<>>,
     gps_slug |-> IF slugs THEN <<"gps">> ELSE <<>>,
     battery_capacity_mah |-> capacity, esc_count |-> count,
     flight_location |-> location, profile |-> profile, sensor_match_type |-> match]

Noise == {"gyro", "accel", "baro", "mag", "h", "alt", "vel"}

MCConfigureBuilds ==
    {Page(FALSE, <<>>, <<>>, <<>>, {}, <<>>),
     Page(FALSE, <<10000>>, <<4>>, <<"valid">>, Noise, <<"junk">>),
     Page(TRUE, <<10000>>, <<4>>, <<"valid">>, {"gyro", "h"}, <<"average">>),
     Page(TRUE, <<900>>, <<>>, <<>>, Noise, <<"exact">>),
     Page(TRUE, <<1500>>, <<1>>, <<"invalid">>, {}, <<>>)}

MCFcAnswers ==
    {[weightG |-> TRUE, gyro |-> "", barometer |-> "", magnetometer |-> ""],
     [weightG |-> TRUE, gyro |-> "icm42688p", barometer |-> "bmp390",
      magnetometer |-> "rm3100"],
     [weightG |-> FALSE, gyro |-> "unheard of", barometer |-> "none",
      magnetometer |-> "none"],
     [weightG |-> FALSE, gyro |-> "icm42688", barometer |-> "unheard of",
      magnetometer |-> "unheard of"]}

==============================================================================
