SPECIFICATION EchoFairSpec
CONSTANT
  MaxFaults = 2
PROPERTIES
  ActiveMeansAnswered
  DeadServerShown
  AsksAgain
