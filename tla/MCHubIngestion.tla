--------------------------- MODULE MCHubIngestion ---------------------------
(* Model checking of HubIngestion: values on both sides of every limit of  *)
(* the metric, and gaps that add up to its stuck timeout and to one more.  *)
EXTENDS HubIngestion

MCFollowed ==
  {<<"HOME", "LIGHT_LEVEL">>, <<"HOME", "SECURITY_STATE">>,
   <<"AGRICULTURE", "AMBIENT_TEMP">>, <<"HVAC", "SUPPLY_TEMP">>,
   <<"WATER_TREATMENT", "PH">>}

MCThresholds(p, m) ==
  {Profiles[p].rules[i].threshold :
     i \in {j \in DOMAIN Profiles[p].rules : Profiles[p].rules[j].metric = m}}

MCSamples(p, m) ==
  MCThresholds(p, m) \union {t - 1 : t \in MCThresholds(p, m)} \union
    IF m \in DOMAIN Profiles[p].bounds
      THEN {Profiles[p].bounds[m].lo, Profiles[p].bounds[m].hi,
            Profiles[p].bounds[m].hi + 1}
      ELSE {-1}

MCGaps(p, m) ==
  {0, 1} \union
    IF m \in DOMAIN Profiles[p].bounds THEN {Profiles[p].bounds[m].stuck} ELSE {}
=============================================================================
