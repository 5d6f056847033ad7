SPECIFICATION FairSpec
CONSTANTS
    Calibrations <- MCCalibrations
    Uts <- MCUts
    Ups <- MCUps
    Altitudes = {1, 2}
    Beyond <- MCBeyond
    MySize = 3
    Width = 8
INVARIANTS TypeOK AverageOfRecent PressureOfThisPass PressureNearReference PressureMonotone
PROPERTY PagesRotate
