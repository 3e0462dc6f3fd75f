------------------------------- MODULE Routes -------------------------------
(***************************************************************************)
(* The device types: how the headings of generate_routes! in                *)
(* server/actions.rs group them into routes, and how devices.rs connects    *)
(* them.  The routes of a group serve all of its types; which actions a     *)
(* group has is left out, each is one call on the handler of the device.    *)
(***************************************************************************)
Bulbs            == {"L510", "L520", "L610"}
ColorBulbs       == {"L530", "L535", "L630"}
RgbStrips        == {"L900"}
RgbicStrips      == {"L920", "L930"}
Plugs            == {"P100", "P105"}
EnergyPlugs      == {"P110", "P110M", "P115"}
PowerStrips      == {"P300"}
EnergyStrips     == {"P304", "P304M", "P316"}

Groups == {Bulbs, ColorBulbs, RgbStrips, RgbicStrips,
           Plugs, EnergyPlugs, PowerStrips, EnergyStrips}

TapoDeviceType == UNION Groups

\* validate_client_type in the handlers of /actions/<route>/...
Accepts(route, type) == \E g \in Groups : route \in g /\ type \in g

\* connect_at: the tapo handler a type is connected with.
HandlerOf(type) ==
    CASE type \in {"L510", "L520", "L610"}   -> "Light"
      [] type \in {"L530", "L535", "L630"}   -> "ColorLight"
      [] type = "L900"                       -> "RgbLightStrip"
      [] type \in {"L920", "L930"}           -> "RgbicLightStrip"
      [] type \in {"P100", "P105"}           -> "Plug"
      [] type \in {"P110", "P110M", "P115"}  -> "PlugEnergyMonitoring"
      [] type = "P300"                       -> "PowerStrip"
      [] type \in {"P304", "P304M", "P316"}  -> "PowerStripEnergyMonitoring"
=============================================================================
