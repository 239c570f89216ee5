SPECIFICATION Spec
CONSTANTS
  eu = eu
  jp = jp
  sg = sg
  Customers <- MCCustomers
  RegionOf <- MCRegionOf
  CurrencyOf <- MCCurrencyOf
  Reporting = "USD"
  Pipelines <- MCPipelines
  FxBuffer = 11
  Margin = 1
  Sample = 2
  Configs <- MCConfigs
  Seeds <- MCSeeds
  MaxGenerations <- MCMaxGenerations
  None = None
INVARIANT
  RateControlIsPrecise
