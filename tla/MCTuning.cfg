\* Two cards of one band, --tune and --report, Ctrl+C and refusals anywhere.
SPECIFICATION Spec
CONSTANTS
  Cards = 2
  CoarsePoints = 3
  FineStep = 10
  WidenBy = 5
  FineBudget = 2
  EffBudget = 1
  Home = 130
  Band <- MCBand
  Gain <- MCGain
  Clocks <- MCClocks
  Grids <- MCGrids
  StockCurves <- MCStockCurves
  RungCurves <- MCRungCurves
INVARIANT CardPutBack
INVARIANT AdviceIsBacked
INVARIANT SwapIsHidden
CHECK_DEADLOCK FALSE
