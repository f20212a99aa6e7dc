CONSTANTS
  Types <- MCTypes
  SetNames = {"x"}
  StNames = {"s", "t"}
  PoNames = {"p"}
  Members = {"m"}
  Asked <- MCAsked
  StLists <- MCStLists
  PoLists <- MCPoLists
  Configs <- MCConfigs
  SetIds = {1, 2}
  StIds = {1, 2}
  PoIds = {1, 2}
  MaxStatements = 2
SPECIFICATION Spec
VIEW View
INVARIANTS NamesStand ReloadLeavesNothing
PROPERTIES SetsStayUnder
CHECK_DEADLOCK FALSE
