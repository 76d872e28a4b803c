----------------------------- MODULE MCLayerEngine -----------------------------
(* Small instances of LayerEngine.  Three layers with a trigger each, every    *)
(* mix of hold and toggle activation that matters, two hold timeouts, and      *)
(* every order in which the map may be walked.                                 *)
EXTENDS LayerEngine

AllLayers == {"aim", "mouse", "gyro"}
AllButtons == {"LM", "RM", "M1"}

Layer(trigger, activation, hold_timeout) ==
  [trigger |-> trigger, activation |-> activation, hold_timeout |-> hold_timeout]

Table(aim, mouse, gyro) ==
  [l \in AllLayers |-> CASE l = "aim" -> aim [] l = "mouse" -> mouse [] l = "gyro" -> gyro]

Ranks == {r \in [AllLayers -> 1 .. 3] :
            \A l, m \in AllLayers : r[l] = r[m] => l = m}

Tables == {
  Table(Layer("LM", "hold", 2), Layer("RM", "hold", 1), Layer("M1", "toggle", 0)),
  Table(Layer("LM", "hold", 1), Layer("RM", "toggle", 0), Layer("M1", "toggle", 0)),
  Table(Layer("LM", "hold", 2), Layer("", "hold", 0), Layer("", "toggle", 0)),
  Table(Layer("LM", "hold", 1), Layer("LM", "toggle", 0), Layer("RM", "hold", 0))}

AllConfigs == {[layers |-> t, rank |-> r] : t \in Tables, r \in Ranks}
================================================================================
