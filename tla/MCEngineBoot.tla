---------------------------- MODULE MCEngineBoot ----------------------------
(***************************************************************************)
(* A device with a GPIO chip, a PWM chip of two outputs and a broker. The  *)
(* deployments follow one another in any order: two that are sound, with   *)
(* different frequencies on a shared output; one each that claims an       *)
(* output, a line or a topic twice; one with a frequency of zero; and one  *)
(* that maps a channel to a resource it does not have.                     *)
(***************************************************************************)
EXTENDS EngineBoot

MCFamilyOf == [r \in {"chip", "motor", "hub"} |->
                 CASE r = "chip" -> "gpio" [] r = "motor" -> "pwm" [] r = "hub" -> "mqtt"]

Chan(kind, ref, at, setting) == [kind |-> kind, ref |-> ref, at |-> at, setting |-> setting]
Deployment(res, chans) == [resources |-> res, channels |-> chans]

Fan(period) == Chan("pwm", "motor", 0, period)
Pump(period) == Chan("pwm", "motor", 1, period)
Button == Chan("gpioin", "chip", 4, 0)
Lamp == Chan("gpioout", "chip", 4, 0)
Alarm(heard) == Chan("mqtt", "hub", 7, heard)

MCDeployments == {
  Deployment({"chip", "motor", "hub"}, {Fan(2), Button, Alarm(1)}),
  Deployment({"motor", "hub"}, {Fan(1), Pump(2), Alarm(0)}),
  Deployment({"motor"}, {Fan(1), Fan(2)}),
  Deployment({"chip"}, {Button, Lamp}),
  Deployment({"hub"}, {Alarm(1), Alarm(2)}),
  Deployment({"motor"}, {Fan(0)}),
  Deployment({"chip"}, {Fan(1)}) }

MCOpenOrder == <<"gpio", "adc", "dac", "serial", "pwm", "camera", "mqtt", "ml">>
MCCloseOrder == <<"gpio", "adc", "dac", "pwm", "serial", "camera", "mqtt", "ml">>
MCLevels == {-100, 100, 200}

=============================================================================
